---- MODULE Spec2Model ----
(***************************************************************************)
(* The content bundler of the General Coding Tools MCP server             *)
(* (mcp-server/scripts/bundle-content.cjs) and the runtime loader that    *)
(* consumes its output.                                                   *)
(*                                                                         *)
(* A JavaScript string is a sequence of characters, a character being a   *)
(* one-character TLA+ string; a character outside ASCII is named by its   *)
(* UTF-8 bytes ("xE2x80x94" is U+2014).  A file is a sequence of bytes; an *)
(* ASCII byte is the character itself and any other byte is "xHH" (as is   *)
(* the backquote, "x60", which a TLA+ string cannot hold).                *)
(* An optional value (null, an absent file) is a sequence of length 0 or  *)
(* 1: None is << >>, Some(v) is << v >>.                                  *)
(***************************************************************************)
EXTENDS Integers, Sequences, FiniteSets, TLC

None == << >>
Some(v) == << v >>

Max(S) == CHOOSE m \in S : \A n \in S : n <= m
Min(S) == CHOOSE m \in S : \A n \in S : m <= n

\* The element of a set that has exactly one: {e(x) : x \in {v}} holds the
\* value of e for x bound to v.
The(S) == CHOOSE x \in S : TRUE

(***************************************************************************)
(* String primitives of the JavaScript runtime, as the bundler uses them. *)
(***************************************************************************)

\* The characters of the model's alphabet that the regular expression class \s matches.
Ws == {" ", "\t", "\n", "\r"}

\* The line terminators: the characters the regular expression "." does not match.
LineTerm == {"\n", "\r"}

\* The character class ["'].
Quotes == {"\"", "'"}

\* pat occurs in s at index i (1-based).
MatchAt(s, i, pat) ==
    /\ i >= 1
    /\ i + Len(pat) - 1 <= Len(s)
    /\ \A k \in 1..Len(pat) : s[i + k - 1] = pat[k]

\* The first index >= from at which pat occurs in s, 0 when there is none.
IndexOfFrom(s, pat, from) ==
    The({IF hits = {} THEN 0 ELSE Min(hits) :
           hits \in {{q \in from..(Len(s) - Len(pat) + 1) : MatchAt(s, q, pat)}}})

\* String.prototype.endsWith
EndsWith(s, suffix) == MatchAt(s, Len(s) - Len(suffix) + 1, suffix)

\* String.prototype.startsWith
StartsWith(s, prefix) == MatchAt(s, 1, prefix)

\* String.prototype.trim: whitespace removed at both ends.
Trim(s) ==
    The({IF keep = {} THEN << >> ELSE SubSeq(s, Min(keep), Max(keep)) :
           keep \in {{i \in 1..Len(s) : s[i] \notin Ws}}})

\* String.prototype.slice(1, -1)
SliceInner(s) == SubSeq(s, 2, Len(s) - 1)

\* s.replace(/^["']|["']$/g, ''): a quote at the very start is removed, and a
\* quote at the very end is removed when it is not that same character.
StripQuotes(s) ==
    The({IF Len(t) >= 1 /\ t[Len(t)] \in Quotes THEN SubSeq(t, 1, Len(t) - 1) ELSE t :
           t \in {IF Len(s) >= 1 /\ s[1] \in Quotes THEN Tail(s) ELSE s}})

\* Array.prototype.join('\n') over an array of strings.
RECURSIVE JoinLines(_)
JoinLines(lines) ==
    IF lines = << >> THEN << >>
    ELSE IF Len(lines) = 1 THEN lines[1]
    ELSE lines[1] \o <<"\n">> \o JoinLines(Tail(lines))

(***************************************************************************)
(* extractFrontmatter                                                     *)
(***************************************************************************)

FmOpen == <<"-", "-", "-">>
FmClose == <<"\n", "-", "-", "-">>
NameKey == <<"n", "a", "m", "e", ":">>
DescKey == <<"d", "e", "s", "c", "r", "i", "p", "t", "i", "o", "n", ":">>

\* content.match(/^---\s*\n([\s\S]*?)\n---/): the captured block, or None.
\* \s* is greedy, so of the newlines reachable from the opening marker through
\* whitespace alone the last one that still leaves a closing "\n---" is taken;
\* the capture is lazy, so it ends at the first closing marker after it.
FrontmatterBlock(content) ==
    IF ~StartsWith(content, FmOpen) THEN None
    ELSE
      The({IF nls = {} THEN None
           ELSE The({Some(SubSeq(content, p + 1, IndexOfFrom(content, FmClose, p + 1) - 1)) :
                       p \in {Max(nls)}}) :
             nls \in {{p \in 4..Len(content) :
                         /\ content[p] = "\n"
                         /\ \A k \in 4..(p - 1) : content[k] \in Ws
                         /\ IndexOfFrom(content, FmClose, p + 1) # 0}}})

\* The capture of key at occurrence i of block for /key\s*(.+)/, or None: after
\* the key, \s* takes as much whitespace as still leaves one character that is
\* not a line terminator, and .+ then runs to the end of that line.
FieldCaptureAt(block, key, i) ==
    The({IF starts = {} THEN None
         ELSE The({Some(SubSeq(block, s, Max({e \in s..Len(block) :
                                                 \A k \in s..e : block[k] \notin LineTerm}))) :
                     s \in {Max(starts)}}) :
           starts \in {{s \in (i + Len(key))..Len(block) :
                          /\ block[s] \notin LineTerm
                          /\ \A k \in (i + Len(key))..(s - 1) : block[k] \in Ws}}})

\* block.match(/key\s*(.+)/): the capture of the leftmost occurrence that matches.
FieldCapture(block, key) ==
    The({IF occ = {} THEN None ELSE FieldCaptureAt(block, key, Min(occ)) :
           occ \in {{i \in 1..Len(block) :
                       MatchAt(block, i, key) /\ FieldCaptureAt(block, key, i) # None}}})

\* nameMatch ? nameMatch[1].trim().replace(/^["']|["']$/g, '') : null
NameOf(nameMatch) ==
    IF nameMatch # None THEN Some(StripQuotes(Trim(nameMatch[1]))) ELSE None

\* descMatch ? descMatch[1].trim() : null, and then a description that starts
\* with a quote loses its first and its last character.
DescriptionOf(descMatch) ==
    The({IF desc # None /\ desc[1] # << >> /\ desc[1][1] \in Quotes
           THEN Some(SliceInner(desc[1]))
           ELSE desc :
           desc \in {IF descMatch # None THEN Some(Trim(descMatch[1])) ELSE None}})

extractFrontmatter(content) ==
    The({IF match = None THEN [name |-> None, description |-> None]
         ELSE [name |-> NameOf(FieldCapture(match[1], NameKey)),
               description |-> DescriptionOf(FieldCapture(match[1], DescKey))] :
           match \in {FrontmatterBlock(content)}})

\* a || b for an optional string a: b when a is null or the empty string.
OrElse(a, b) == IF a = None \/ a[1] = << >> THEN b ELSE a[1]

(***************************************************************************)
(* UTF-8, as fs.readFileSync(p, 'utf8'), fs.writeFileSync(p, s, 'utf8')   *)
(* and hash.update(s, 'utf8') apply it.  The model's bytes outside ASCII  *)
(* are the lead bytes xE2 and xEF, four continuation bytes and xFF, which *)
(* no UTF-8 sequence contains.                                            *)
(***************************************************************************)

Lead3 == {"xE2", "xEF"}
Cont == {"x80", "x94", "xBF", "xBD"}
InvalidByte == "xFF"

\* U+FFFD, which the decoder puts in place of every ill-formed sequence.
Replacement == "xEFxBFxBD"

\* U+2014, the dash of the catalog and overview templates.
EmDash == "xE2x80x94"

\* The bytes of the model that are not ASCII.
NonAscii == Lead3 \cup Cont \cup {InvalidByte}

\* The characters of the model that are not ASCII, each named by its bytes.
MultiChars == {t[1] \o t[2] \o t[3] : t \in Lead3 \X Cont \X Cont}

\* The number of bytes of the sequence that starts with the byte at i, which
\* is not ASCII: 3 for a lead byte with its two continuation bytes, else the
\* length of the maximal ill-formed prefix.
SequenceLength(bytes, i) ==
    IF bytes[i] \in Lead3
      THEN IF i + 1 <= Len(bytes) /\ bytes[i + 1] \in Cont
             THEN IF i + 2 <= Len(bytes) /\ bytes[i + 2] \in Cont THEN 3 ELSE 2
             ELSE 1
      ELSE 1

\* Buffer.toString('utf8'): a lead byte with its two continuation bytes is one
\* character; a lead byte with fewer (the maximal ill-formed prefix), a
\* continuation byte no lead byte claims and xFF each decode to U+FFFD.
RECURSIVE Utf8Decode(_)
Utf8Decode(bytes) ==
    The({IF odd = {} THEN bytes
         ELSE The({SubSeq(bytes, 1, i - 1)
                   \o << IF used = 3 THEN bytes[i] \o bytes[i + 1] \o bytes[i + 2]
                                     ELSE Replacement >>
                   \o Utf8Decode(SubSeq(bytes, i + used, Len(bytes))) :
                     i \in {Min(odd)}, used \in {SequenceLength(bytes, Min(odd))}}) :
           odd \in {{i \in 1..Len(bytes) : bytes[i] \in NonAscii}}})

\* The UTF-8 bytes of one character outside ASCII.
CharBytes(c) == CHOOSE t \in Lead3 \X Cont \X Cont : t[1] \o t[2] \o t[3] = c

\* Buffer.from(s, 'utf8'): an ASCII character is its own byte.
RECURSIVE Utf8Encode(_)
Utf8Encode(s) ==
    The({IF wide = {} THEN s
         ELSE The({SubSeq(s, 1, i - 1) \o CharBytes(s[i])
                   \o Utf8Encode(SubSeq(s, i + 1, Len(s))) : i \in {Min(wide)}}) :
           wide \in {{i \in 1..Len(s) : s[i] \in MultiChars}}})

(***************************************************************************)
(* JavaScript values as JSON sees them.  An object's properties are kept  *)
(* in own-property order.                                                 *)
(***************************************************************************)

JStr(s) == [t |-> "string", s |-> s]
JBool(b) == [t |-> "boolean", b |-> b]
JNull == [t |-> "null"]
JArr(a) == [t |-> "array", a |-> a]
JObj(o) == [t |-> "object", o |-> o]

Digits == <<"0", "1", "2", "3", "4", "5", "6", "7", "8", "9">>
DigitVal(c) == (CHOOSE i \in 1..10 : Digits[i] = c) - 1

\* A canonical array index: such keys come first, in ascending numeric order,
\* in an object's own-property order.  The model's keys have at most 9 digits.
IsArrayIndex(k) ==
    /\ Len(k) \in 1..9
    /\ \A i \in 1..Len(k) : \E d \in 1..10 : Digits[d] = k[i]
    /\ Len(k) > 1 => k[1] # "0"

RECURSIVE NumVal(_)
NumVal(k) == IF k = << >> THEN 0 ELSE 10 * NumVal(SubSeq(k, 1, Len(k) - 1)) + DigitVal(k[Len(k)])

ProtoKey == <<"_", "_", "p", "r", "o", "t", "o", "_", "_">>

HasOwn(o, k) == \E i \in 1..Len(o) : o[i].k = k

\* o[k] for an own property k of o.
OwnValue(o, k) == o[CHOOSE i \in 1..Len(o) : o[i].k = k].v

\* The number of array-index keys of o that come before the array-index key k.
IndexKeysBefore(o, k) ==
    Cardinality({i \in 1..Len(o) : IsArrayIndex(o[i].k) /\ NumVal(o[i].k) < NumVal(k)})

\* CreateDataProperty(o, k, v): an existing key keeps its place and takes the
\* new value; a new array-index key goes among the array-index keys by value,
\* any other new key goes last.
ObjDefine_RewrittenMovesLast(o, k, v) ==
    IF HasOwn(o, k)
      THEN Append(SelectSeq(o, LAMBDA e : e.k # k), [k |-> k, v |-> v])
    ELSE IF IsArrayIndex(k)
      THEN The({SubSeq(o, 1, n) \o << [k |-> k, v |-> v] >> \o SubSeq(o, n + 1, Len(o)) :
                  n \in {IndexKeysBefore(o, k)}})
    ELSE Append(o, [k |-> k, v |-> v])
ObjDefine(o, k, v) ==
    IF HasOwn(o, k)
      THEN [i \in 1..Len(o) |-> IF o[i].k = k THEN [k |-> k, v |-> v] ELSE o[i]]
    ELSE IF IsArrayIndex(k)
      THEN The({SubSeq(o, 1, n) \o << [k |-> k, v |-> v] >> \o SubSeq(o, n + 1, Len(o)) :
                  n \in {IndexKeysBefore(o, k)}})
    ELSE Append(o, [k |-> k, v |-> v])

\* o[k] = v on an object made by the literal {}: the key __proto__ reaches the
\* accessor inherited from Object.prototype, which replaces o's prototype and
\* creates no own property.
ObjAssign_Merging(o, k, v) ==
    IF k = ProtoKey THEN o
    ELSE IF HasOwn(o, k) /\ v.description = << >>
      THEN ObjDefine(o, k, [v EXCEPT !.description = OwnValue(o, k).description])
    ELSE ObjDefine(o, k, v)
ObjAssign(o, k, v) == IF k = ProtoKey THEN o ELSE ObjDefine(o, k, v)

(***************************************************************************)
(* JSON.stringify(value, null, 0) and JSON.parse.                         *)
(***************************************************************************)

\* The characters JSON.stringify writes as an escape, among the model's.
JsonEscaped == {"\"", "\\", "\n", "\r", "\t"}

\* The escape of one character inside a JSON string literal.
JsonEscape(c) ==
    CASE c = "\"" -> <<"\\", "\"">>
      [] c = "\\" -> <<"\\", "\\">>
      [] c = "\n" -> <<"\\", "n">>
      [] c = "\r" -> <<"\\", "r">>
      [] c = "\t" -> <<"\\", "t">>

\* The text of s with every character that needs one replaced by its escape.
RECURSIVE EscapeAll(_)
EscapeAll(s) ==
    The({IF special = {} THEN s
         ELSE The({SubSeq(s, 1, i - 1) \o JsonEscape(s[i])
                   \o EscapeAll(SubSeq(s, i + 1, Len(s))) : i \in {Min(special)}}) :
           special \in {{i \in 1..Len(s) : s[i] \in JsonEscaped}}})

QuoteJson(s) == <<"\"">> \o EscapeAll(s) \o <<"\"">>

RECURSIVE JoinComma(_)
JoinComma(texts) ==
    IF texts = << >> THEN << >>
    ELSE IF Len(texts) = 1 THEN texts[1]
    ELSE texts[1] \o <<",">> \o JoinComma(Tail(texts))

RECURSIVE Stringify(_)
Stringify(v) ==
    CASE v.t = "string" -> QuoteJson(v.s)
      [] v.t = "boolean" -> IF v.b THEN <<"t", "r", "u", "e">> ELSE <<"f", "a", "l", "s", "e">>
      [] v.t = "null" -> <<"n", "u", "l", "l">>
      [] v.t = "array" ->
           <<"[">> \o JoinComma([i \in 1..Len(v.a) |-> Stringify(v.a[i])]) \o <<"]">>
      [] v.t = "object" ->
           <<"{">>
           \o JoinComma([i \in 1..Len(v.o) |->
                           QuoteJson(v.o[i].k) \o <<":">> \o Stringify(v.o[i].v)])
           \o <<"}">>

\* The number of backslashes that directly precede index j, none before index lo.
BackslashRun(s, lo, j) ==
    IF j - 1 < lo \/ s[j - 1] # "\\" THEN 0
    ELSE Max({r \in 1..(j - lo) : \A k \in (j - r)..(j - 1) : s[k] = "\\"})

\* The character an escape \c of a JSON string literal stands for.
JsonUnescape(c) ==
    CASE c = "n" -> "\n"
      [] c = "r" -> "\r"
      [] c = "t" -> "\t"
      [] OTHER -> c

Failed == [ok |-> FALSE, v |-> JNull, next |-> 0]
Parsed(v, next) == [ok |-> TRUE, v |-> v, next |-> next]

\* The text of the escaped literal body s[lo..hi]: every backslash is
\* dropped and the character after it unescaped.
RECURSIVE UnescapeAll(_, _, _)
UnescapeAll(s, lo, hi) ==
    The({IF slashes = {} THEN SubSeq(s, lo, hi)
         ELSE The({SubSeq(s, lo, p - 1)
                   \o (IF p < hi THEN << JsonUnescape(s[p + 1]) >> ELSE << >>)
                   \o UnescapeAll(s, p + 2, hi) : p \in {Min(slashes)}}) :
           slashes \in {{p \in lo..hi : s[p] = "\\"}}})

\* A string literal that opens at index i: its text runs to the first quote
\* that an even number of backslashes precedes.
ParseString(s, i) ==
    IF ~(i <= Len(s) /\ s[i] = "\"") THEN Failed
    ELSE
      The({IF closes = {} THEN Failed
           ELSE The({Parsed(JStr(UnescapeAll(s, i + 1, j - 1)), j + 1) : j \in {Min(closes)}}) :
             closes \in {{j \in (i + 1)..Len(s) :
                            s[j] = "\"" /\ BackslashRun(s, i + 1, j) % 2 = 0}}})

RECURSIVE ParseValue(_, _), ParseElements(_, _, _), ParseMembers(_, _, _)

\* The elements of an array after "[" or ",", index i at the next element.
ParseElements(s, i, acc) ==
    The({IF ~e.ok \/ e.next > Len(s) THEN Failed
         ELSE IF s[e.next] = "]" THEN Parsed(JArr(Append(acc, e.v)), e.next + 1)
         ELSE IF s[e.next] = "," THEN ParseElements(s, e.next + 1, Append(acc, e.v))
         ELSE Failed :
           e \in {ParseValue(s, i)}})

\* What follows the key k of a member: ":" and the value, then "}" or ",".
MemberAfterKey(s, acc, k) ==
    IF ~k.ok \/ k.next > Len(s) \/ s[k.next] # ":" THEN Failed
    ELSE The({IF ~m.ok \/ m.next > Len(s) THEN Failed
              ELSE IF s[m.next] = "}"
                     THEN Parsed(JObj(ObjDefine(acc, k.v.s, m.v)), m.next + 1)
              ELSE IF s[m.next] = ","
                     THEN ParseMembers(s, m.next + 1, ObjDefine(acc, k.v.s, m.v))
              ELSE Failed :
                m \in {ParseValue(s, k.next + 1)}})

\* The members of an object after "{" or ",", index i at the next key.  A
\* repeated key keeps its place and takes the later value.
ParseMembers(s, i, acc) == MemberAfterKey(s, acc, ParseString(s, i))

\* The JSON value that starts at index i (strings, literals, arrays, objects:
\* the bundle holds no numbers, and JSON.stringify with indent 0 writes no
\* whitespace).
ParseValue(s, i) ==
    IF i > Len(s) THEN Failed
    ELSE CASE s[i] = "\"" -> ParseString(s, i)
           [] s[i] = "t" ->
                IF MatchAt(s, i, <<"t", "r", "u", "e">>) THEN Parsed(JBool(TRUE), i + 4) ELSE Failed
           [] s[i] = "f" ->
                IF MatchAt(s, i, <<"f", "a", "l", "s", "e">>) THEN Parsed(JBool(FALSE), i + 5) ELSE Failed
           [] s[i] = "n" ->
                IF MatchAt(s, i, <<"n", "u", "l", "l">>) THEN Parsed(JNull, i + 4) ELSE Failed
           [] s[i] = "[" ->
                IF i < Len(s) /\ s[i + 1] = "]" THEN Parsed(JArr(<< >>), i + 2)
                ELSE ParseElements(s, i + 1, << >>)
           [] s[i] = "{" ->
                IF i < Len(s) /\ s[i + 1] = "}" THEN Parsed(JObj(<< >>), i + 2)
                ELSE ParseMembers(s, i + 1, << >>)
           [] OTHER -> Failed

\* JSON.parse(text): the value, or None where JSON.parse throws.
JsonParse(text) ==
    The({IF r.ok /\ r.next = Len(text) + 1 THEN Some(r.v) ELSE None :
           r \in {ParseValue(text, 1)}})

(***************************************************************************)
(* The source tree the bundler reads.  A directory is a function from     *)
(* entry names to entries; an absent file or directory is None.           *)
(*   skills root entry:  [isDir, skill, ref]  (SKILL.md and REFERENCE.md  *)
(*                       of a subdirectory, each Some(bytes) or None)     *)
(*   subagents root entry: the bytes of the file                          *)
(***************************************************************************)

MdSuffix == <<".","m","d">>

\* path.basename(f, '.md') for a bare file name: the suffix is removed, and
\* the name that is the suffix and nothing else gives the empty string.
Basename_WholeNameKept(f) ==
    IF EndsWith(f, MdSuffix) /\ Len(f) > Len(MdSuffix)
      THEN SubSeq(f, 1, Len(f) - Len(MdSuffix))
      ELSE f
Basename(f) ==
    IF EndsWith(f, MdSuffix) THEN SubSeq(f, 1, Len(f) - Len(MdSuffix)) ELSE f

\* The sequences that list every element of the finite set S once: the orders
\* in which fs.readdirSync may return a directory's entries.
Orders(S) ==
    {o \in [1..Cardinality(S) -> S] : \A i, j \in 1..Cardinality(S) : o[i] = o[j] => i = j}

\* !!v for a string or null v.
Truthy(opt) == opt # None /\ opt[1] # << >>

\* The record line 59 stores for the directory d, an entry e of the skills
\* root that holds SKILL.md.
SkillRecord(d, e) ==
    The({The({[id |-> d,
               name |-> OrElse(fm.name, d),
               description |-> OrElse(fm.description, << >>),
               content |-> skillContent,
               reference |-> IF e.ref # None THEN Some(Utf8Decode(e.ref[1])) ELSE None] :
                fm \in {extractFrontmatter(skillContent)}}) :
           skillContent \in {Utf8Decode(e.skill[1])}})

\* The loop of buildSkills over the entries order[i..], byName so far.
RECURSIVE SkillsLoop(_, _, _, _)
SkillsLoop_NoSkip(root, order, i, byName) ==
    IF i > Len(order) THEN byName
    ELSE IF root[order[i]].skill = None
      THEN SkillsLoop(root, order, i + 1,
                      ObjAssign(byName, order[i],
                                [id |-> order[i], name |-> order[i], description |-> << >>,
                                 content |-> << >>,
                                 reference |-> IF root[order[i]].ref # None
                                                 THEN Some(Utf8Decode(root[order[i]].ref[1]))
                                                 ELSE None]))
    ELSE The({SkillsLoop(root, order, i + 1, ObjAssign(byName, rec.name, rec)) :
                rec \in {SkillRecord(order[i], root[order[i]])}})
SkillsLoop(root, order, i, byName) ==
    IF i > Len(order) THEN byName
    ELSE IF root[order[i]].skill = None THEN SkillsLoop(root, order, i + 1, byName)
    ELSE The({SkillsLoop(root, order, i + 1, ObjAssign(byName, rec.name, rec)) :
                rec \in {SkillRecord(order[i], root[order[i]])}})

\* The metadata list of buildSkills: Object.values(byName).map(...).
SkillsList_IdAsName(byName) ==
    [i \in 1..Len(byName) |->
        [id |-> byName[i].v.id,
         name |-> byName[i].v.id,
         hasReference |-> Truthy(byName[i].v.reference)]]
SkillsList(byName) ==
    [i \in 1..Len(byName) |->
        [id |-> byName[i].v.id,
         name |-> byName[i].v.name,
         hasReference |-> Truthy(byName[i].v.reference)]]

\* buildSkills, the skills root read as listing (None when it does not exist)
\* and its entries returned by readdirSync in the order dirOrder.
buildSkills_PhantomEntry(listing, dirOrder) ==
    IF listing = None
      THEN [skills |-> << [id |-> << >>, name |-> << >>, hasReference |-> FALSE] >>,
            byName |-> << >>]
    ELSE The({[skills |-> SkillsList(byName), byName |-> byName] :
                byName \in {SkillsLoop(listing[1],
                                       SelectSeq(dirOrder, LAMBDA d : listing[1][d].isDir),
                                       1, << >>)}})
buildSkills(listing, dirOrder) ==
    IF listing = None THEN [skills |-> << >>, byName |-> << >>]
    ELSE The({[skills |-> SkillsList(byName), byName |-> byName] :
                byName \in {SkillsLoop(listing[1],
                                       SelectSeq(dirOrder, LAMBDA d : listing[1][d].isDir),
                                       1, << >>)}})

\* The record line 80 stores for the file f with the bytes given.
SubagentRecord(f, bytes) ==
    The({The({[id |-> Basename(f),
               name |-> OrElse(fm.name, Basename(f)),
               description |-> OrElse(fm.description, << >>),
               content |-> content] :
                fm \in {extractFrontmatter(content)}}) :
           content \in {Utf8Decode(bytes)}})

\* The loop of buildSubagents.
RECURSIVE SubagentsLoop(_, _, _, _)
SubagentsLoop(root, files, i, byName) ==
    IF i > Len(files) THEN byName
    ELSE The({SubagentsLoop(root, files, i + 1, ObjAssign(byName, rec.name, rec)) :
                rec \in {SubagentRecord(files[i], root[files[i]])}})

\* The metadata list of buildSubagents.
SubagentsList(byName) ==
    [i \in 1..Len(byName) |-> [id |-> byName[i].v.id, name |-> byName[i].v.name]]

buildSubagents(listing, fileOrder) ==
    IF listing = None THEN [subagents |-> << >>, byName |-> << >>]
    ELSE The({[subagents |-> SubagentsList(byName), byName |-> byName] :
                byName \in {SubagentsLoop(listing[1],
                                          SelectSeq(fileOrder, LAMBDA f : EndsWith(f, MdSuffix)),
                                          1, << >>)}})

NoDescription == <<"(","n","o"," ","d","e","s","c","r","i","p","t","i","o","n",")">>

\* byName[name]?.description || '(no description)' of buildCatalog.
CatalogDescription_EmptyKept(byName, name) ==
    IF HasOwn(byName, name) THEN OwnValue(byName, name).description ELSE NoDescription
CatalogDescription(byName, name) ==
    IF HasOwn(byName, name) /\ OwnValue(byName, name).description # << >>
      THEN OwnValue(byName, name).description
      ELSE NoDescription

\* One line of the catalog, from the template literal of buildCatalog.
CatalogLine(byName, m) ==
    <<"-"," ","*","*">> \o m.name \o <<"*","*"," ","(","i","d",":"," ","x60">> \o m.id \o <<"x60",")"," ",EmDash," ">>
    \o CatalogDescription(byName, m.name)

buildCatalog(skillsData, subagentsData) ==
    JoinLines(
      << <<"#"," ","C","a","t","a","l","o","g">>, << >>, <<"#","#"," ","S","k","i","l","l","s">>, << >> >>
      \o [i \in 1..Len(skillsData.skills) |->
            CatalogLine(skillsData.byName, skillsData.skills[i])]
      \o << << >>, <<"#","#"," ","S","u","b","a","g","e","n","t","s">>, << >> >>
      \o [i \in 1..Len(subagentsData.subagents) |->
            CatalogLine(subagentsData.byName, subagentsData.subagents[i])])

\* readWhenToUse: the document when it exists, the empty string otherwise.
readWhenToUse(file) == IF file # None THEN Utf8Decode(file[1]) ELSE << >>

\* A property v of the parsed package.json inside a template literal: the text of a string,
\* "undefined" for a property that is not there.
Undefined == <<"u","n","d","e","f","i","n","e","d">>
Unknown == <<"u","n","k","n","o","w","n">>
PkgProp(pkg, key) ==
    IF pkg.t = "object" /\ HasOwn(pkg.o, key) /\ OwnValue(pkg.o, key).t = "string"
      THEN Some(OwnValue(pkg.o, key).s)
      ELSE None
TemplateText(opt) == IF opt = None THEN Undefined ELSE opt[1]

OverviewGuide ==
    <<"U","s","e"," ","t","h","e"," ","*","*","c","a","t","a","l","o","g","*","*"," ","r","e",
      "s","o","u","r","c","e"," ","f","o","r"," ","a"," ","l","i","s","t"," ","o","f"," ","s",
      "k","i","l","l","s"," ","a","n","d"," ","s","u","b","a","g","e","n","t","s","."," ","U",
      "s","e"," ","*","*","w","h","e","n","-","t","o","-","u","s","e","*","*"," ","t","o"," ",
      "c","h","o","o","s","e"," ","t","h","e"," ","r","i","g","h","t"," ","o","n","e"," ","f",
      "o","r"," ","t","h","e"," ","r","e","q","u","e","s","t",".">>

\* buildOverview over the parsed package.json.
buildOverview(pkg) ==
    JoinLines(
      << <<"#"," ","O","v","e","r","v","i","e","w">>,
         << >>,
         <<"*","*">> \o TemplateText(PkgProp(pkg, <<"n","a","m","e">>)) \o <<"*","*"," ",EmDash," ">>
           \o TemplateText(PkgProp(pkg, <<"d","e","s","c","r","i","p","t","i","o","n">>)),
         << >>,
         <<"V","e","r","s","i","o","n",":"," ","x60">> \o OrElse(PkgProp(pkg, <<"v","e","r","s","i","o","n">>), Unknown) \o <<"x60">>,
         << >>,
         OverviewGuide >>)

\* The object literal assigned to output.
Output(skillsData, subagentsData, whenToUseFile, pkg) ==
    JObj(<<
      [k |-> <<"s","k","i","l","l","s">>, v |->
         JArr([i \in 1..Len(skillsData.skills) |->
                 JObj(<< [k |-> <<"i", "d">>, v |-> JStr(skillsData.skills[i].id)],
                         [k |-> <<"n","a","m","e">>, v |-> JStr(skillsData.skills[i].name)],
                         [k |-> <<"h","a","s","R","e","f","e","r","e","n","c","e">>,
                          v |-> JBool(skillsData.skills[i].hasReference)] >>)])],
      [k |-> <<"s","u","b","a","g","e","n","t","s">>, v |->
         JArr([i \in 1..Len(subagentsData.subagents) |->
                 JObj(<< [k |-> <<"i", "d">>, v |-> JStr(subagentsData.subagents[i].id)],
                         [k |-> <<"n","a","m","e">>, v |-> JStr(subagentsData.subagents[i].name)] >>)])],
      [k |-> <<"c","o","n","t","e","n","t">>, v |->
         JObj(<<
           [k |-> <<"s","k","i","l","l","s">>, v |->
              JObj([i \in 1..Len(skillsData.byName) |->
                      [k |-> skillsData.byName[i].k,
                       v |-> JObj(<< [k |-> <<"c","o","n","t","e","n","t">>,
                                      v |-> JStr(skillsData.byName[i].v.content)],
                                     [k |-> <<"r","e","f","e","r","e","n","c","e">>,
                                      v |-> IF skillsData.byName[i].v.reference = None
                                              THEN JNull
                                              ELSE JStr(skillsData.byName[i].v.reference[1])] >>)]])],
           [k |-> <<"s","u","b","a","g","e","n","t","s">>, v |->
              JObj([i \in 1..Len(subagentsData.byName) |->
                      [k |-> subagentsData.byName[i].k,
                       v |-> JObj(<< [k |-> <<"c","o","n","t","e","n","t">>,
                                      v |-> JStr(subagentsData.byName[i].v.content)] >>)]])],
           [k |-> <<"c","a","t","a","l","o","g">>, v |-> JStr(buildCatalog(skillsData, subagentsData))],
           [k |-> <<"w","h","e","n","T","o","U","s","e">>, v |-> JStr(readWhenToUse(whenToUseFile))],
           [k |-> <<"o","v","e","r","v","i","e","w">>, v |-> JStr(buildOverview(pkg))] >>)] >>)

\* crypto.createHash('sha256') over bytes, digest('hex'): SHA-256 as an
\* injective function of the bytes, so a digest is named by the bytes it is
\* of; the hexadecimal text is in lower case.
Sha256Hex_LengthOnly(bytes) == [sha256 |-> Len(bytes), upper |-> FALSE]
Sha256Hex(bytes) == [sha256 |-> bytes, upper |-> FALSE]

\* String.prototype.toLowerCase on hexadecimal text.
ToLowerCase(hex) == [hex EXCEPT !.upper = FALSE]

\* The bytes fs.writeFileSync(OUT_FILE, jsonContent, 'utf8') writes.
ArtifactBytes_Newline(jsonContent) == Utf8Encode(jsonContent) \o <<"\n">>
ArtifactBytes(jsonContent) == Utf8Encode(jsonContent)

\* The text written to OUT_FILE + '.sha256': the digest of jsonContent, then "\n".
SidecarText_NoNewline(jsonContent) ==
    [hex |-> Sha256Hex(Utf8Encode(jsonContent)), trailer |-> << >>]
SidecarText(jsonContent) ==
    [hex |-> Sha256Hex(Utf8Encode(jsonContent)), trailer |-> <<"\n">>]

(***************************************************************************)
(* The runtime loader, verifier, index and access adapters.               *)
(***************************************************************************)

\* The sidecar's value as the verifier compares it: the text without the
\* whitespace around it, None when that is no digest.
SidecarValue(sidecar) ==
    IF \A i \in 1..Len(sidecar.trailer) : sidecar.trailer[i] \in Ws
      THEN Some(sidecar.hex)
      ELSE None

\* The verifier's comparison: SHA-256 over the artifact bytes against the
\* sidecar value, the hexadecimal digits compared without regard to case.
DigestMatches(bytes, sidecar) ==
    /\ SidecarValue(sidecar) # None
    /\ ToLowerCase(Sha256Hex(bytes)) = ToLowerCase(SidecarValue(sidecar)[1])

KeyId == <<"i", "d">>
KeyName == <<"n","a","m","e">>
KeyHasReference == <<"h","a","s","R","e","f","e","r","e","n","c","e">>
KeySkills == <<"s","k","i","l","l","s">>
KeySubagents == <<"s","u","b","a","g","e","n","t","s">>
KeyContent == <<"c","o","n","t","e","n","t">>
KeyReference == <<"r","e","f","e","r","e","n","c","e">>

\* v[key] of a parsed JSON object.
Field(v, key) == OwnValue(v.o, key)

\* One entry of a metadata list as a record.
MetaRecord(kind, entry) ==
    IF kind = KeySkills
      THEN [id |-> Field(entry, KeyId).s, name |-> Field(entry, KeyName).s,
            hasReference |-> Field(entry, KeyHasReference).b]
      ELSE [id |-> Field(entry, KeyId).s, name |-> Field(entry, KeyName).s]

\* The metadata list of one collection, as records.
MetaList(bundle, kind) ==
    [i \in 1..Len(Field(bundle, kind).a) |-> MetaRecord(kind, Field(bundle, kind).a[i])]

\* The point-lookup indices over a metadata list: each id (name) maps to the
\* last entry of the list that has it.
IndexById(list) ==
    [k \in {list[i].id : i \in 1..Len(list)} |->
        list[Max({i \in 1..Len(list) : list[i].id = k})]]
IndexByName(list) ==
    [k \in {list[i].name : i \in 1..Len(list)} |->
        list[Max({i \in 1..Len(list) : list[i].name = k})]]

\* The in-memory index of one collection of a parsed bundle.
CollectionIndex(bundle, kind) ==
    The({[list |-> list,
          byId |-> IndexById(list),
          byName |-> IndexByName(list),
          content |-> Field(Field(bundle, KeyContent), kind).o] :
           list \in {MetaList(bundle, kind)}})

\* The in-memory index: one per collection.
BuildIndexOf(bundle) ==
    [skills |-> CollectionIndex(bundle, KeySkills),
     subagents |-> CollectionIndex(bundle, KeySubagents)]

Kinds == {"skills", "subagents"}

NotFound == [status |-> "notFound"]

\* The record the caller's string resolves to: by id first, then by name.
Resolve_NameFirst(col, x) ==
    IF x \in DOMAIN col.byName THEN Some(col.byName[x])
    ELSE IF x \in DOMAIN col.byId THEN Some(col.byId[x])
    ELSE None
Resolve(col, x) ==
    IF x \in DOMAIN col.byId THEN Some(col.byId[x])
    ELSE IF x \in DOMAIN col.byName THEN Some(col.byName[x])
    ELSE None

\* What Get answers for the entry c of the content map.
Found(kind, c) ==
    IF kind = "skills"
      THEN [status |-> "ok",
            content |-> Field(c, KeyContent).s,
            reference |-> IF Field(c, KeyReference).t = "null"
                            THEN None
                            ELSE Some(Field(c, KeyReference).s)]
      ELSE [status |-> "ok", content |-> Field(c, KeyContent).s]

\* Get: the full content (and for a skill the reference text, null when there
\* is none) of the record x resolves to, or the not-found condition.
Get_PartialOnMiss(index, kind, x) ==
    The({IF m = None \/ ~HasOwn(index[kind].content, m[1].name)
           THEN [status |-> "ok", content |-> << >>]
         ELSE Found(kind, OwnValue(index[kind].content, m[1].name)) :
           m \in {Resolve(index[kind], x)}})
Get(index, kind, x) ==
    The({IF m = None \/ ~HasOwn(index[kind].content, m[1].name) THEN NotFound
         ELSE Found(kind, OwnValue(index[kind].content, m[1].name)) :
           m \in {Resolve(index[kind], x)}})

\* List: the metadata lists as the bundle holds them.
List_Reversed(index) ==
    [status |-> "ok",
     skills |-> [i \in 1..Len(index.skills.list) |->
                   index.skills.list[Len(index.skills.list) + 1 - i]],
     subagents |-> index.subagents.list]
List(index) == [status |-> "ok", skills |-> index.skills.list, subagents |-> index.subagents.list]

\* The fixed template of Compose: the content, a separator, the message.
ComposeSeparator == <<"\n", "\n">>

Compose_Validating(index, kind, x, message) ==
    The({IF g.status = "notFound" \/ message = << >> THEN NotFound
         ELSE [status |-> "ok", text |-> g.content \o ComposeSeparator \o message] :
           g \in {Get(index, kind, x)}})
Compose(index, kind, x, message) ==
    The({IF g.status = "notFound" THEN NotFound
         ELSE [status |-> "ok", text |-> g.content \o ComposeSeparator \o message] :
           g \in {Get(index, kind, x)}})

(***************************************************************************)
(* Source documents and source trees of the model.                        *)
(***************************************************************************)

DirA == <<"a">>
DirB == <<"b">>
DirC == <<"c">>
FileV == <<"v",".","m","d">>
FileW == <<"w",".","m","d">>
FileN == <<"n",".","t","x","t">>
\* The file names .md and .md.md: the suffix alone, and the suffix twice.
FileDot == <<".","m","d">>
\* The file whose stem is the name of the skill directory a.
FileA == <<"a",".","m","d">>
FileDotDot == <<".","m","d",".","m","d">>

\* No metadata block: the name falls back to the directory or file name.
DocPlain == <<"A">>
\* Two documents that declare the same name, s.
DocS1 == <<"-","-","-","\n","n","a","m","e",":"," ","s","\n","-","-","-","\n","B">>
DocS2 == <<"-","-","-","\n","n","a","m","e",":"," ","s","\n","d","e","s","c","r","i","p","t","i","o","n",":"," ","\"","d","\"","\n","-","-","-","\n","C">>
\* Declares the name b, which is also a directory name.
DocB == <<"-","-","-","\n","n","a","m","e",":"," ","b","\n","-","-","-","\n","D">>
\* Declares the name __proto__.
DocProto == <<"-","-","-","\n","n","a","m","e",":"," ","_","_","p","r","o","t","o","_","_","\n","-","-","-","\n","E">>
\* Declares the name 1, an array index.
DocOne == <<"-","-","-","\n","n","a","m","e",":"," ","1","\n","-","-","-","\n","G">>
\* Not well-formed UTF-8.
DocBad == <<"F", "xFF">>

RefEmpty == << >>
RefText == <<"R">>

PkgFull == <<"{","\"","n","a","m","e","\"",":","\"","p","\"",",","\"","d","e","s","c","r","i","p","t","i","o","n","\"",":","\"","q","\"",",","\"","v","e","r","s","i","o","n","\"",":","\"","1","\"","}">>
PkgNoVersion == <<"{","\"","n","a","m","e","\"",":","\"","p","\"",",","\"","d","e","s","c","r","i","p","t","i","o","n","\"",":","\"","q","\"","}">>
WhenToUseDoc == <<"W">>

SkillDir(skill, ref) == [isDir |-> TRUE, skill |-> skill, ref |-> ref]
PlainFile == [isDir |-> FALSE, skill |-> None, ref |-> None]

\* The function with domain S that maps every k to f[k] (f a function on a superset).
Restrict(f, S) == [k \in S |-> f[k]]

SkillDocs == {DocPlain, DocS1, DocS2, DocB, DocProto, DocBad}

\* What the name a in the skills root may be: a subdirectory with a primary
\* document and no secondary document, with an empty one or with one that has
\* text, a subdirectory with only a secondary document, or a plain file.
SkillEntriesA ==
    {SkillDir(Some(d), None) : d \in SkillDocs}
    \cup {SkillDir(Some(DocS1), Some(RefEmpty)), SkillDir(Some(DocPlain), Some(RefText)),
          SkillDir(None, Some(RefText)), PlainFile}

\* What the name b may be.
SkillEntriesB ==
    {SkillDir(Some(DocPlain), None), SkillDir(Some(DocS1), None),
     SkillDir(Some(DocS2), Some(RefText)), SkillDir(Some(DocPlain), Some(RefEmpty)),
     SkillDir(Some(DocProto), None)}

\* Every skills root over the names a and b, and no skills root.
SkillRoots ==
    {None, Some(<< >>)}
    \cup {Some((DirA :> a)) : a \in SkillEntriesA}
    \cup {Some((DirB :> b)) : b \in SkillEntriesB}
    \cup {Some((DirA :> a) @@ (DirB :> b)) : a \in SkillEntriesA, b \in SkillEntriesB}

SubagentDocs == {DocPlain, DocS1, DocProto}

\* Every subagents root over the files v.md, w.md and n.txt, and none.
SubagentRoots ==
    {None}
    \cup {Some(Restrict(f, S)) : f \in [{FileV, FileW, FileN} -> SubagentDocs],
                                 S \in {{}, {FileV}, {FileV, FileW}, {FileV, FileN}}}

Tree(skills, subagents, whenToUse, pkg) ==
    [skills |-> skills, subagents |-> subagents, whenToUse |-> whenToUse, pkg |-> pkg]

TreeOne ==
    Tree(Some((DirA :> SkillDir(Some(DocS1), None))),
         Some((FileV :> DocPlain)), None, Some(PkgFull))
TreeBare == Tree(None, None, None, Some(PkgFull))
TreeNoPkg == Tree(None, None, None, None)

\* The source trees of the pipeline specification.
PipelineTrees == {TreeOne, TreeBare, TreeNoPkg}

\* The source trees of the tampering specification.
TamperTrees == {TreeOne, TreeBare}

\* The source trees of the build specification: every skills root beside one
\* subagents root, every subagents root beside one skills root, and the tree
\* that has neither root nor package.json.
BuildTrees ==
    {Tree(sk, TreeOne.subagents, None, Some(PkgFull)) : sk \in SkillRoots}
    \cup {Tree(TreeOne.skills, sub, Some(WhenToUseDoc), Some(PkgNoVersion)) : sub \in SubagentRoots}
    \cup {TreeNoPkg}

(***************************************************************************)
(* Documents handed to the frontmatter parser alone.  A document is       *)
(*   [form, lines, text]: lines are the field lines of its metadata block *)
(*   ([key, value], value the text after the colon), form says where the  *)
(*   markers stand, and text is the document as extractFrontmatter gets   *)
(*   it.                                                                  *)
(***************************************************************************)

\* The texts that follow the colon of a field whose value is the character c:
\* bare, in double quotes, in single quotes, nothing, a blank, a quote on one
\* side only, and an empty pair of quotes.
FieldValues(c) ==
    {<<" ", c>>, <<" ", "\"", c, "\"">>, <<" ", "'", c, "'">>, << >>, <<" ">>,
     <<" ", "\"", c>>, <<" ", c, "\"">>, <<" ", "\"", "\"">>}

\* The field lines of a metadata block: a name line or none, a description
\* line or none, in either order.
FieldLines ==
    {<< >>}
    \cup {<<[key |-> NameKey, value |-> v]>> : v \in FieldValues("n")}
    \cup {<<[key |-> DescKey, value |-> v]>> : v \in FieldValues("d")}
    \cup {<<[key |-> NameKey, value |-> v], [key |-> DescKey, value |-> w]>> :
             v \in FieldValues("n"), w \in FieldValues("d")}
    \cup {<<[key |-> DescKey, value |-> w], [key |-> NameKey, value |-> v]>> :
             v \in FieldValues("n"), w \in FieldValues("d")}

\* The text of the block: its lines joined by newlines.
BlockText(lines) == JoinLines([i \in 1..Len(lines) |-> lines[i].key \o lines[i].value])

\* The document of a form: "block" has the markers at the very start, "late"
\* has a line before the opening marker, "open" has no closing marker and
\* "plain" no marker at all.
DocumentText(form, lines) ==
    CASE form = "block" -> FmOpen \o <<"\n">> \o BlockText(lines) \o FmClose \o <<"\n", "T">>
      [] form = "late" -> <<"\n">> \o FmOpen \o <<"\n">> \o BlockText(lines) \o FmClose \o <<"\n", "T">>
      [] form = "open" -> FmOpen \o <<"\n">> \o BlockText(lines) \o <<"\n", "T">>
      [] form = "plain" -> BlockText(lines) \o <<"\n", "T">>

Document(form, lines) == [form |-> form, lines |-> lines, text |-> DocumentText(form, lines)]

Documents ==
    {Document("block", l) : l \in FieldLines}
    \cup {Document(f, <<[key |-> NameKey, value |-> <<" ", "n">>], [key |-> DescKey, value |-> <<" ", "d">>]>>) :
             f \in {"late", "open", "plain"}}

\* The source trees whose subagents root holds the files .md and .md.md.
StemTrees ==
    {Tree(TreeOne.skills, Some((FileDot :> d) @@ (FileDotDot :> e)), None, Some(PkgFull)) :
        d \in {DocPlain, DocS1}, e \in {DocPlain, DocS1}}

\* The source trees in which the skill directory a stands beside the subagent
\* document a.md: the two have one id, and one name when both declare the
\* name s or neither declares one.
CrossTrees ==
    {Tree(Some((DirA :> SkillDir(Some(d), Some(RefText)))), Some((FileA :> e)),
          None, Some(PkgFull)) :
        d \in {DocPlain, DocS1}, e \in {DocPlain, DocS2}}

\* The source tree with three skill directories and three subagent documents:
\* in each collection two sources declare the name s, and the third skill
\* declares the name 1.
TripleTrees ==
    {Tree(Some((DirA :> SkillDir(Some(DocS1), None)) @@ (DirB :> SkillDir(Some(DocOne), None))
               @@ (DirC :> SkillDir(Some(DocS2), Some(RefText)))),
          Some((FileV :> DocS1) @@ (FileW :> DocPlain) @@ (FileA :> DocS2)),
          None, Some(PkgFull))}

\* The source trees over the documents of the parser: the document is the
\* primary document of the skill directory a and the subagent document v.md.
DocumentTrees ==
    {Tree(Some((DirA :> SkillDir(Some(d.text), None))), Some((FileV :> d.text)),
          None, Some(PkgFull)) : d \in Documents}

(***************************************************************************)
(* State.                                                                 *)
(*   tree     the source tree (skills, subagents, docs/when-to-use.md,    *)
(*            package.json)                                               *)
(*   dist     the output directory: the artifact and its sidecar          *)
(*   bpc      where the bundler script is; build holds its variables      *)
(*   lpc      where the server process is; srv holds what it has read and *)
(*            its index; resp is its latest response                      *)
(*   nbuilds, nedits, nruns   builds started, edits made, servers started *)
(*   tampered    a byte of the artifact was changed behind the builder    *)
(*   lastWrite   the bytes the latest run passed to the artifact write    *)
(*   completed   the artifact and sidecar each completed build wrote      *)
(*   input    a source document handed to the frontmatter parser alone,   *)
(*            and parsed what extractFrontmatter returned for it          *)
(***************************************************************************)
VARIABLES tree, dist, bpc, build, lpc, srv, resp, nbuilds, nedits, nruns,
          tampered, lastWrite, completed, input, parsed

vars == <<tree, dist, bpc, build, lpc, srv, resp, nbuilds, nedits, nruns,
          tampered, lastWrite, completed, input, parsed>>

builderVars == <<bpc, build, nbuilds, lastWrite, completed>>
serverVars == <<lpc, srv, resp, nruns>>
parserVars == <<input, parsed>>

MaxBuilds == 2
MaxEdits == 1
MaxRuns == 2

NoData == [list |-> << >>, byName |-> << >>]
NoLocals == [skillDirs |-> << >>, files |-> << >>,
             skillsData |-> NoData, subagentsData |-> NoData, jsonContent |-> << >>]
NoDist == [artifact |-> None, sidecar |-> None]
NoServer == [artifact |-> None, sidecar |-> None, index |-> None]

InitFiles ==
    /\ dist = NoDist
    /\ bpc = "idle"
    /\ build = NoLocals
    /\ lpc = "off"
    /\ srv = NoServer
    /\ resp = None
    /\ nbuilds = 0
    /\ nedits = 0
    /\ nruns = 0
    /\ tampered = FALSE
    /\ lastWrite = None
    /\ completed = {}

InitCommon ==
    /\ InitFiles
    /\ input = None
    /\ parsed = None

\* The names fs.readdirSync(dir) returns, for a directory that exists.
Names(listing) == IF listing = None THEN {} ELSE DOMAIN listing[1]

\* The source tree changes between or during builds.
EditSource ==
    /\ nedits < MaxEdits
    /\ nedits' = nedits + 1
    /\ tree' \in PipelineTrees \ {tree}
    /\ UNCHANGED <<parserVars, dist, tampered, builderVars, serverVars>>

\* The bytes a tampering hand may put in place of a byte of the artifact.
TamperBytes == {"#"}

\* One byte of the artifact file is changed; the sidecar is left as it is.
TamperArtifact ==
    /\ ~tampered
    /\ dist.artifact # None
    /\ \E i \in 1..Len(dist.artifact[1]), b \in TamperBytes \cup {InvalidByte} :
          /\ b # dist.artifact[1][i]
          /\ b \in TamperBytes \/ dist.artifact[1][i] \in TamperBytes
          /\ dist' = [dist EXCEPT !.artifact = Some([dist.artifact[1] EXCEPT ![i] = b])]
    /\ tampered' = TRUE
    /\ UNCHANGED <<parserVars, tree, nedits, builderVars, serverVars>>

\* The artifact file is overwritten with other bytes; the sidecar is left as
\* it is.
OverwriteArtifact ==
    /\ ~tampered
    /\ dist.artifact # None
    /\ dist' = [dist EXCEPT !.artifact = Some(<<"#">>)]
    /\ tampered' = TRUE
    /\ UNCHANGED <<parserVars, tree, nedits, builderVars, serverVars>>

\* The artifact or the sidecar is deleted from the output directory.
DeleteOutput ==
    /\ \E f \in {"artifact", "sidecar"} :
          /\ dist[f] # None
          /\ dist' = [dist EXCEPT ![f] = None]
    /\ UNCHANGED <<parserVars, tree, nedits, tampered, builderVars, serverVars>>

\* const skillsData = buildSkills();
BuildSkills_Pruning ==
    /\ bpc = "idle"
    /\ nbuilds < MaxBuilds
    /\ nbuilds' = nbuilds + 1
    /\ \E dirOrder \in Orders(Names(tree.skills)) :
          \E r \in {buildSkills(tree.skills, dirOrder)} :
             build' = [build EXCEPT !.skillDirs = dirOrder,
                                    !.skillsData = [list |-> r.skills, byName |-> r.byName]]
    /\ tree' = [tree EXCEPT !.skills =
                   IF tree.skills = None THEN None
                   ELSE Some(Restrict(tree.skills[1],
                                      {d \in DOMAIN tree.skills[1] :
                                          tree.skills[1][d].isDir => tree.skills[1][d].skill = None}))]
    /\ bpc' = "subagents"
    /\ UNCHANGED <<parserVars, dist, nedits, tampered, lastWrite, completed, serverVars>>
BuildSkills ==
    /\ bpc = "idle"
    /\ nbuilds < MaxBuilds
    /\ nbuilds' = nbuilds + 1
    /\ \E dirOrder \in Orders(Names(tree.skills)) :
          \E r \in {buildSkills(tree.skills, dirOrder)} :
             build' = [build EXCEPT !.skillDirs = dirOrder,
                                    !.skillsData = [list |-> r.skills, byName |-> r.byName]]
    /\ bpc' = "subagents"
    /\ UNCHANGED <<parserVars, tree, dist, nedits, tampered, lastWrite, completed, serverVars>>

\* const subagentsData = buildSubagents();
BuildSubagents_SharedMap ==
    /\ bpc = "subagents"
    /\ \E fileOrder \in Orders(Names(tree.subagents)) :
          \E byName \in {IF tree.subagents = None THEN build.skillsData.byName
                         ELSE SubagentsLoop(tree.subagents[1],
                                            SelectSeq(fileOrder, LAMBDA f : EndsWith(f, MdSuffix)),
                                            1, build.skillsData.byName)} :
             build' = [build EXCEPT !.files = fileOrder,
                                    !.subagentsData = [list |-> SubagentsList(byName),
                                                       byName |-> byName]]
    /\ bpc' = "output"
    /\ UNCHANGED <<parserVars, tree, dist, nbuilds, nedits, tampered, lastWrite, completed, serverVars>>
BuildSubagents ==
    /\ bpc = "subagents"
    /\ \E fileOrder \in Orders(Names(tree.subagents)) :
          \E r \in {buildSubagents(tree.subagents, fileOrder)} :
             build' = [build EXCEPT !.files = fileOrder,
                                    !.subagentsData = [list |-> r.subagents, byName |-> r.byName]]
    /\ bpc' = "output"
    /\ UNCHANGED <<parserVars, tree, dist, nbuilds, nedits, tampered, lastWrite, completed, serverVars>>

\* JSON.parse(fs.readFileSync(pkgPath, 'utf8')): None where either throws.
ReadPackage(file) == IF file = None THEN None ELSE JsonParse(Utf8Decode(file[1]))

\* The value of jsonContent: JSON.stringify(output, null, 0).
JsonContent(locals, whenToUseFile, pkg) ==
    Stringify(Output([skills |-> locals.skillsData.list, byName |-> locals.skillsData.byName],
                     [subagents |-> locals.subagentsData.list,
                      byName |-> locals.subagentsData.byName],
                     whenToUseFile, pkg))

\* const output = {...}; fs.mkdirSync(OUT_DIR); const jsonContent =
\* JSON.stringify(output, null, 0);  buildOverview throws when package.json is
\* missing or is not JSON, and the script ends there.
BuildOutput_Stamped ==
    /\ bpc = "output"
    /\ \E pkg \in {ReadPackage(tree.pkg)} :
           IF pkg = None
             THEN /\ bpc' = "idle"
                  /\ build' = NoLocals
             ELSE /\ bpc' = "writeArtifact"
                  /\ build' = [build EXCEPT !.jsonContent =
                                  JsonContent(build, Some(<< Digits[nbuilds + 1] >>), pkg[1])]
    /\ UNCHANGED <<parserVars, tree, dist, nbuilds, nedits, tampered, lastWrite, completed, serverVars>>
BuildOutput ==
    /\ bpc = "output"
    /\ \E pkg \in {ReadPackage(tree.pkg)} :
           IF pkg = None
             THEN /\ bpc' = "idle"
                  /\ build' = NoLocals
             ELSE /\ bpc' = "writeArtifact"
                  /\ build' = [build EXCEPT !.jsonContent =
                                  JsonContent(build, tree.whenToUse, pkg[1])]
    /\ UNCHANGED <<parserVars, tree, dist, nbuilds, nedits, tampered, lastWrite, completed, serverVars>>

\* fs.writeFileSync(OUT_FILE, jsonContent, 'utf8');
WriteArtifact_Appending ==
    /\ bpc = "writeArtifact"
    /\ dist' = [dist EXCEPT !.artifact =
                   Some((IF dist.artifact = None THEN << >> ELSE dist.artifact[1])
                        \o ArtifactBytes(build.jsonContent))]
    /\ lastWrite' = dist'.artifact
    /\ bpc' = "writeSidecar"
    /\ UNCHANGED <<parserVars, tree, build, nbuilds, nedits, tampered, completed, serverVars>>
WriteArtifact ==
    /\ bpc = "writeArtifact"
    /\ dist' = [dist EXCEPT !.artifact = Some(ArtifactBytes(build.jsonContent))]
    /\ lastWrite' = dist'.artifact
    /\ bpc' = "writeSidecar"
    /\ UNCHANGED <<parserVars, tree, build, nbuilds, nedits, tampered, completed, serverVars>>

\* const hash = ...; fs.writeFileSync(OUT_FILE + '.sha256', hash + '\n', 'utf8');
\* the script ends.
WriteSidecar ==
    /\ bpc = "writeSidecar"
    /\ dist' = [dist EXCEPT !.sidecar = Some(SidecarText(build.jsonContent))]
    /\ completed' = completed \cup {[artifact |-> lastWrite[1], sidecar |-> dist'.sidecar[1]]}
    /\ bpc' = "idle"
    /\ build' = NoLocals
    /\ UNCHANGED <<parserVars, tree, nbuilds, nedits, tampered, lastWrite, serverVars>>

\* A server process starts.
ServerStart ==
    /\ lpc \in {"off", "failed", "crashed"}
    /\ nruns < MaxRuns
    /\ nruns' = nruns + 1
    /\ lpc' = "readArtifact"
    /\ srv' = NoServer
    /\ resp' = None
    /\ UNCHANGED <<parserVars, tree, dist, nedits, tampered, builderVars>>

\* The loader reads the artifact bytes; a missing file ends the process.
ReadArtifact ==
    /\ lpc = "readArtifact"
    /\ IF dist.artifact = None
         THEN lpc' = "crashed" /\ srv' = srv
         ELSE lpc' = "readSidecar" /\ srv' = [srv EXCEPT !.artifact = dist.artifact]
    /\ UNCHANGED <<parserVars, tree, dist, nedits, tampered, builderVars, resp, nruns>>

\* The loader reads the sidecar; a missing file ends the process.
ReadSidecar ==
    /\ lpc = "readSidecar"
    /\ IF dist.sidecar = None
         THEN lpc' = "crashed" /\ srv' = srv
         ELSE lpc' = "verify" /\ srv' = [srv EXCEPT !.sidecar = dist.sidecar]
    /\ UNCHANGED <<parserVars, tree, dist, nedits, tampered, builderVars, resp, nruns>>

\* Phase 1: the digest is recomputed and compared; a mismatch is fatal.
Verify_Unchecked ==
    /\ lpc = "verify"
    /\ lpc' = "verified"
    /\ UNCHANGED <<parserVars, tree, dist, nedits, tampered, builderVars, srv, resp, nruns>>
Verify ==
    /\ lpc = "verify"
    /\ lpc' = IF DigestMatches(srv.artifact[1], srv.sidecar[1]) THEN "verified" ELSE "failed"
    /\ UNCHANGED <<parserVars, tree, dist, nedits, tampered, builderVars, srv, resp, nruns>>

\* Phase 2: the verified bytes are parsed and the index is built.
BuildIndex ==
    /\ lpc = "verified"
    /\ \E bundle \in {JsonParse(Utf8Decode(srv.artifact[1]))} :
           IF bundle = None
             THEN lpc' = "crashed" /\ srv' = srv
             ELSE lpc' = "serving" /\ srv' = [srv EXCEPT !.index = Some(BuildIndexOf(bundle[1]))]
    /\ UNCHANGED <<parserVars, tree, dist, nedits, tampered, builderVars, resp, nruns>>

\* The strings callers ask for, and the messages they pass to Compose.
RequestStrings == {DirA, DirB, <<"s">>, <<"v">>, ProtoKey, <<"z">>}
ComposeStrings == {DirA, <<"z">>}
Messages == {<<"m">>}

ListRequest_Rechecking ==
    /\ lpc = "serving"
    /\ IF /\ dist.artifact # None
          /\ dist.sidecar # None
          /\ DigestMatches(dist.artifact[1], dist.sidecar[1])
         THEN lpc' = lpc /\ resp' = Some([op |-> "list", r |-> List(srv.index[1])])
         ELSE lpc' = "failed" /\ resp' = None
    /\ UNCHANGED <<parserVars, tree, dist, nedits, tampered, builderVars, srv, nruns>>
ListRequest ==
    /\ lpc = "serving"
    /\ resp' = Some([op |-> "list", r |-> List(srv.index[1])])
    /\ UNCHANGED <<parserVars, tree, dist, nedits, tampered, builderVars, lpc, srv, nruns>>

GetRequest_Evicting ==
    /\ lpc = "serving"
    /\ \E kind \in Kinds, x \in RequestStrings :
          /\ resp' = Some([op |-> "get", kind |-> kind, x |-> x, r |-> Get(srv.index[1], kind, x)])
          /\ srv' = [srv EXCEPT !.index = Some([srv.index[1] EXCEPT ![kind].byId = << >>])]
    /\ UNCHANGED <<parserVars, tree, dist, nedits, tampered, builderVars, lpc, nruns>>
GetRequest ==
    /\ lpc = "serving"
    /\ \E kind \in Kinds, x \in RequestStrings :
          resp' = Some([op |-> "get", kind |-> kind, x |-> x, r |-> Get(srv.index[1], kind, x)])
    /\ UNCHANGED <<parserVars, tree, dist, nedits, tampered, builderVars, lpc, srv, nruns>>

ComposeRequest ==
    /\ lpc = "serving"
    /\ \E kind \in Kinds, x \in ComposeStrings, message \in Messages :
          resp' = Some([op |-> "compose", kind |-> kind, x |-> x, message |-> message,
                        r |-> Compose(srv.index[1], kind, x, message)])
    /\ UNCHANGED <<parserVars, tree, dist, nedits, tampered, builderVars, lpc, srv, nruns>>

\* The server process is stopped.
ServerStop ==
    /\ lpc = "serving"
    /\ lpc' = "off"
    /\ srv' = NoServer
    /\ resp' = None
    /\ UNCHANGED <<parserVars, tree, dist, nedits, tampered, builderVars, nruns>>

\* extractFrontmatter(content), called on a document by itself.
ExtractFrontmatter ==
    /\ input # None
    /\ parsed = None
    /\ parsed' = Some(extractFrontmatter(input[1].text))
    /\ UNCHANGED <<input, tree, dist, nedits, tampered, builderVars, serverVars>>

(***************************************************************************)
(* Integrity of the artifact and its sidecar.                             *)
(***************************************************************************)

\* The two byte sequences have one length and differ at exactly one place.
OneByteChanged(a, b) ==
    /\ Len(a) = Len(b)
    /\ Cardinality({i \in 1..Len(a) : a[i] # b[i]}) = 1

\* The pair of files a server process has read, once it has read both.
PairRead == [artifact |-> srv.artifact[1], sidecar |-> srv.sidecar[1]]
HasReadPair == srv.artifact # None /\ srv.sidecar # None

\* The digest recomputed over the bytes read is the one the sidecar read holds.
DigestAgrees ==
    /\ \A i \in 1..Len(srv.sidecar[1].trailer) : srv.sidecar[1].trailer[i] \in Ws
    /\ srv.sidecar[1].hex.sha256 = Sha256Hex(srv.artifact[1]).sha256

\* C1: when the loader has read the sidecar a build wrote and an artifact that
\* differs from that build's artifact in exactly one byte, the recomputed
\* digest differs from the sidecar value and the loader ends in the integrity
\* failure: it is never verified, never serves and never ends otherwise.
C1_SingleByteChangeDetected ==
    \A p \in completed :
        (HasReadPair /\ srv.sidecar[1] = p.sidecar
                     /\ OneByteChanged(p.artifact, srv.artifact[1]))
        => /\ ~DigestMatches(srv.artifact[1], srv.sidecar[1])
           /\ lpc \in {"verify", "failed"}

C1_Witness ==
    /\ lpc = "failed"
    /\ HasReadPair
    /\ \E p \in completed : /\ srv.sidecar[1] = p.sidecar
                            /\ OneByteChanged(p.artifact, srv.artifact[1])

\* C2: in every run of the server process the index is built and List, Get
\* and Compose answer only after the digest check of that run has succeeded
\* on the bytes that run read; after a mismatch the process stays failed, and
\* the only thing that follows is the start of another process.
C2_NoServingBeforeVerification ==
    /\ [](lpc \in {"verified", "serving"} \/ srv.index # None \/ resp # None
             => HasReadPair /\ DigestAgrees)
    /\ [][/\ (lpc' = "verified" => lpc = "verify" /\ DigestAgrees)
          /\ (srv'.index # None /\ srv.index = None => lpc = "verified")
          /\ (resp' # None /\ resp' # resp => lpc = "serving" /\ lpc' = "serving")
          /\ (lpc = "failed" =>
                 \/ lpc' = "failed" /\ srv' = srv /\ resp' = None
                 \/ lpc' = "readArtifact" /\ nruns' = nruns + 1 /\ srv' = NoServer)]_vars

C2_Witness ==
    /\ lpc = "failed"
    /\ HasReadPair
    /\ ~DigestAgrees
    /\ srv.index = None
    /\ resp = None
    /\ nruns > 1

\* C3: every completed build run left a sidecar that is the lowercase
\* hexadecimal SHA-256 digest of the very bytes that run wrote to the
\* artifact file, followed by exactly one newline; when the run ends the
\* sidecar file holds that text.
C3_SidecarIsDigestOfWrittenBytes ==
    /\ \A p \in completed :
          /\ p.sidecar.hex.sha256 = p.artifact
          /\ p.sidecar.hex.upper = FALSE
          /\ p.sidecar.trailer = <<"\n">>
    /\ (bpc = "idle" /\ lastWrite # None
           => /\ dist.sidecar # None
              /\ dist.sidecar[1].hex.sha256 = lastWrite[1]
              /\ [artifact |-> lastWrite[1], sidecar |-> dist.sidecar[1]] \in completed)

C3_Witness ==
    /\ bpc = "idle"
    /\ nbuilds > 1
    /\ Cardinality(completed) > 1
    /\ dist.artifact = lastWrite
    /\ dist.sidecar # None

\* C4: a loader that has read a pair exactly as a completed build wrote it
\* passes verification and builds the index, in every run, and the index is
\* the one those bytes determine and stays as built while the process serves;
\* no step of a server process changes either file.
C4_LoaderIdempotent ==
    /\ [](HasReadPair /\ PairRead \in completed
            => /\ lpc \in {"verify", "verified", "serving"}
               /\ DigestMatches(srv.artifact[1], srv.sidecar[1])
               /\ (lpc = "serving" /\ resp = None =>
                     /\ JsonParse(Utf8Decode(PairRead.artifact)) # None
                     /\ srv.index =
                          Some(BuildIndexOf(JsonParse(Utf8Decode(PairRead.artifact))[1]))))
    /\ [][/\ (lpc' # lpc \/ srv' # srv \/ resp' # resp) => dist' = dist
          /\ (lpc = "serving" /\ lpc' = "serving") => srv' = srv]_vars

C4_Witness ==
    /\ lpc = "serving"
    /\ nruns > 1
    /\ PairRead \in completed
    /\ dist.artifact = srv.artifact
    /\ dist.sidecar = srv.sidecar

\* C5: without tampering, under any interleaving of build runs and server
\* starts, a loader that has read the artifact and the sidecar holds a pair
\* whose digest matches, so it never ends in the integrity failure.
C5_NoMismatchWithoutTampering ==
    (~tampered /\ HasReadPair) => DigestAgrees /\ lpc # "failed"


(***************************************************************************)
(* The bundle against the source tree it was built from.                  *)
(***************************************************************************)

\* The name a source document declares: the name of its metadata block, or
\* the fallback when the block has none.
DeclaredName(doc, fallback) == OrElse(extractFrontmatter(Utf8Decode(doc)).name, fallback)

\* The skill directories of the tree that hold a primary document, and the
\* subagent documents of the tree.
SkillSources ==
    IF tree.skills = None THEN {}
    ELSE {d \in DOMAIN tree.skills[1] :
             tree.skills[1][d].isDir /\ tree.skills[1][d].skill # None}
SubagentSources ==
    IF tree.subagents = None THEN {}
    ELSE {f \in DOMAIN tree.subagents[1] : EndsWith(f, MdSuffix)}

SkillName(d) == DeclaredName(tree.skills[1][d].skill[1], d)
SubagentName(f) == DeclaredName(tree.subagents[1][f], Basename(f))

\* The server process serves what a completed build of the tree wrote.
ServingBuilt == lpc = "serving" /\ HasReadPair /\ PairRead \in completed

\* C6: after build then load, Get with a name that a source document of the
\* tree declares answers with content that is byte for byte a source document
\* of that name and, for a skill, with the reference text that is byte for
\* byte the secondary document of that directory, none when it has none.
C6_RoundTrip ==
    (ServingBuilt /\ resp # None /\ resp[1].op = "get")
    => /\ (resp[1].kind = "skills" /\ \E d \in SkillSources : SkillName(d) = resp[1].x)
             => /\ resp[1].r.status = "ok"
                /\ \E d \in SkillSources :
                      /\ SkillName(d) = resp[1].x
                      /\ Utf8Encode(resp[1].r.content) = tree.skills[1][d].skill[1]
                      /\ IF tree.skills[1][d].ref = None
                           THEN resp[1].r.reference = None
                           ELSE /\ resp[1].r.reference # None
                                /\ Utf8Encode(resp[1].r.reference[1]) = tree.skills[1][d].ref[1]
       /\ (resp[1].kind = "subagents" /\ \E f \in SubagentSources : SubagentName(f) = resp[1].x)
             => /\ resp[1].r.status = "ok"
                /\ \E f \in SubagentSources :
                      /\ SubagentName(f) = resp[1].x
                      /\ Utf8Encode(resp[1].r.content) = tree.subagents[1][f]

\* The build has gone through the skills root.
SkillsBuilt == bpc \in {"subagents", "output", "writeArtifact", "writeSidecar"}

\* C7: the names of the built skills listing are exactly the names declared
\* by the directories that hold a primary document, and no name is listed
\* twice.
C7_ListingNamesAreDeclaredNames ==
    SkillsBuilt
    => LET l == build.skillsData.list
       IN  /\ {l[i].name : i \in 1..Len(l)} = {SkillName(d) : d \in SkillSources}
           /\ \A i, j \in 1..Len(l) : l[i].name = l[j].name => i = j

\* The place of x in the sequence order.
Position(order, x) == CHOOSE i \in 1..Len(order) : order[i] = x

\* Of the sources S, the one the build processed last.
LastProcessed(order, S) ==
    CHOOSE x \in S : \A y \in S : Position(order, y) <= Position(order, x)

\* C8: when the build has gone through both collections and two or more
\* skill directories (subagent documents) declare one name, the listing has
\* exactly one entry and the content exactly one key of that name, and the
\* entry is the record of the one processed last among them.
C8_CollisionLastWins ==
    bpc \in {"output", "writeArtifact", "writeSidecar"}
    => /\ \A d \in SkillSources :
             LET same == {e \in SkillSources : SkillName(e) = SkillName(d)}
                 l == build.skillsData.list
                 c == build.skillsData.byName
             IN  Cardinality(same) > 1
                 => /\ Cardinality({i \in 1..Len(l) : l[i].name = SkillName(d)}) = 1
                    /\ Cardinality({i \in 1..Len(c) : c[i].k = SkillName(d)}) = 1
                    /\ \A i \in 1..Len(l) :
                          l[i].name = SkillName(d)
                          => l[i].id = LastProcessed(build.skillDirs, same)
       /\ \A f \in SubagentSources :
             LET same == {e \in SubagentSources : SubagentName(e) = SubagentName(f)}
                 l == build.subagentsData.list
                 c == build.subagentsData.byName
             IN  Cardinality(same) > 1
                 => /\ Cardinality({i \in 1..Len(l) : l[i].name = SubagentName(f)}) = 1
                    /\ Cardinality({i \in 1..Len(c) : c[i].k = SubagentName(f)}) = 1
                    /\ \A i \in 1..Len(l) :
                          l[i].name = SubagentName(f)
                          => l[i].id = Basename(LastProcessed(build.files, same))

\* C9: every entry of the built skills listing has hasReference true exactly
\* when the directory that supplied the record held a secondary document,
\* whatever that document holds.
C9_HasReferenceIffDocumentPresent ==
    SkillsBuilt
    => LET l == build.skillsData.list
       IN  \A i \in 1..Len(l) :
              l[i].hasReference <=> tree.skills[1][l[i].id].ref # None

\* C10: in the bundle a build is about to write, every entry of the skills
\* metadata list has an entry in content.skills, and its hasReference is true
\* exactly when the reference of that entry is not null.
C10_HasReferenceIffReferenceNonNull ==
    bpc = "writeArtifact"
    => LET bundle == JsonParse(build.jsonContent)[1]
           l == Field(bundle, KeySkills).a
           c == Field(Field(bundle, KeyContent), KeySkills).o
       IN  \A i \in 1..Len(l) :
              /\ HasOwn(c, Field(l[i], KeyName).s)
              /\ Field(l[i], KeyHasReference).b
                   <=> Field(OwnValue(c, Field(l[i], KeyName).s), KeyReference) # JNull

\* The names of the metadata list of one collection of a bundle, and the keys
\* of its content map.
ListNames(bundle, kind) ==
    {Field(Field(bundle, kind).a[i], KeyName).s : i \in 1..Len(Field(bundle, kind).a)}
ContentKeys(bundle, kind) ==
    {Field(Field(bundle, KeyContent), kind).o[i].k :
        i \in 1..Len(Field(Field(bundle, KeyContent), kind).o)}

\* C11: in the bundle a build is about to write, the names of the skills
\* metadata list are exactly the keys of content.skills and the names of the
\* subagents metadata list are exactly the keys of content.subagents,
\* whatever names the source documents declare.
C11_ListNamesAreContentKeys ==
    bpc = "writeArtifact"
    => \A bundle \in {JsonParse(build.jsonContent)[1]} :
          \A kind \in {KeySkills, KeySubagents} :
             ListNames(bundle, kind) = ContentKeys(bundle, kind)

C11_Witness ==
    /\ bpc = "writeArtifact"
    /\ \E d \in SkillSources : SkillName(d) = ProtoKey
    /\ \E d \in SkillSources : SkillName(d) # d /\ SkillName(d) # ProtoKey
    /\ Len(build.skillsData.list) = 1
    /\ Len(build.subagentsData.list) = 1

(***************************************************************************)
(* The access adapters over the index of a serving process.               *)
(***************************************************************************)

\* The metadata list of one collection of the index, and what the content
\* map of that collection holds under a name.
IndexList(kind) == srv.index[1][kind].list
ContentOf(kind, name) ==
    IF HasOwn(srv.index[1][kind].content, name)
      THEN Found(kind, OwnValue(srv.index[1][kind].content, name))
      ELSE NotFound

\* The latest response answers a Get.
GetAnswered == resp # None /\ resp[1].op = "get"

\* Get answers by id before name: a string that is the id of a listed record
\* gets that record's content, a string that is no id and is a name gets the
\* content of that name, any other string the not-found condition.
IdBeforeName ==
    \A l \in {IndexList(resp[1].kind)} :
       resp[1].r =
          IF \E i \in 1..Len(l) : l[i].id = resp[1].x
            THEN ContentOf(resp[1].kind,
                           l[CHOOSE i \in 1..Len(l) : l[i].id = resp[1].x].name)
          ELSE IF \E i \in 1..Len(l) : l[i].name = resp[1].x
            THEN ContentOf(resp[1].kind, resp[1].x)
          ELSE NotFound

\* The answer to Get(id) of the listed record rec is ok, is the answer Get
\* gives for the record's name, and for a skill carries a reference exactly
\* when the record's directory held a secondary document.
SameByIdAndName(rec) ==
    /\ resp[1].r.status = "ok"
    /\ resp[1].r = Get(srv.index[1], resp[1].kind, rec.name)
    /\ resp[1].kind = "skills"
          => (resp[1].r.reference = None <=> tree.skills[1][rec.id].ref = None)

\* C12: Get looks the caller's string up in the id index first and only on a
\* miss in the name index; for a listed record whose id and name differ and
\* whose name is not the id of another record of the collection, Get(id) and
\* Get(name) both resolve and return the same content and the same reference
\* value, null when the directory held no secondary document.
C12_GetByIdThenName ==
    (ServingBuilt /\ GetAnswered)
    => /\ IdBeforeName
       /\ \A l \in {IndexList(resp[1].kind)} :
             \A i \in 1..Len(l) :
                (/\ l[i].id = resp[1].x
                 /\ l[i].id # l[i].name
                 /\ \A j \in 1..Len(l) : l[j].id # l[i].name)
                => SameByIdAndName(l[i])

C12_Witness ==
    /\ ServingBuilt
    /\ GetAnswered
    /\ resp[1].kind = "skills"
    /\ resp[1].x = DirA
    /\ resp[1].r.status = "ok"
    /\ resp[1].r.reference = None
    /\ \E i \in 1..Len(IndexList("skills")) :
          IndexList("skills")[i].id = DirA /\ IndexList("skills")[i].name = <<"s">>

\* C12 as stated: for every listed record whose id and name differ, Get(id)
\* and Get(name) both resolve and return the same content and reference.
C12_AnyRecordSameByIdAndName ==
    (ServingBuilt /\ GetAnswered)
    => /\ IdBeforeName
       /\ \A l \in {IndexList(resp[1].kind)} :
             \A i \in 1..Len(l) :
                (l[i].id = resp[1].x /\ l[i].id # l[i].name) => SameByIdAndName(l[i])

\* The string is the id or the name of a listed record of the collection.
Known(kind, x) ==
    \E i \in 1..Len(IndexList(kind)) :
       IndexList(kind)[i].id = x \/ IndexList(kind)[i].name = x

\* The latest response answers a Get or a Compose.
LookupAnswered == resp # None /\ resp[1].op \in {"get", "compose"}

\* A response of Get or Compose is the not-found condition or a whole
\* record: never one with a field missing.
WholeAnswer(a) ==
    \/ a.r = NotFound
    \/ /\ a.r.status = "ok"
       /\ DOMAIN a.r = IF a.op = "compose" THEN {"status", "text"}
                       ELSE IF a.kind = "skills" THEN {"status", "content", "reference"}
                       ELSE {"status", "content"}

\* C13: for every string that is neither an id nor a name of a record of the
\* queried collection, Get and Compose answer with the not-found condition;
\* every answer is that condition or a whole record, and the step that
\* answers leaves the process serving with its index as it was.
C13_UnknownIsNotFound ==
    /\ [](lpc = "serving" /\ LookupAnswered
             => /\ WholeAnswer(resp[1])
                /\ ~Known(resp[1].kind, resp[1].x) => resp[1].r = NotFound)
    /\ [][(resp' # None /\ resp' # resp)
             => lpc = "serving" /\ lpc' = "serving" /\ srv' = srv]_vars

C13_Witness ==
    /\ lpc = "serving"
    /\ LookupAnswered
    /\ resp[1].op = "compose"
    /\ resp[1].kind = "skills"
    /\ resp[1].x = <<"z">>
    /\ resp[1].r = NotFound
    /\ Len(IndexList("skills")) = 2

\* Messages a caller may pass: text, the empty string, text that looks like
\* the start of a metadata block.
AnyMessages == {<<"m">>, << >>, <<"-", "-", "-", "\n">>}

\* C14: Compose succeeds exactly when Get of the same string succeeds; on
\* success its text is the template filled with the content Get returns and
\* the caller's message as given, on failure it is the not-found condition
\* Get returns; no message changes whether Compose succeeds.
C14_ComposeFollowsGet ==
    (lpc = "serving" /\ resp # None /\ resp[1].op = "compose")
    => \A g \in {Get(srv.index[1], resp[1].kind, resp[1].x)} :
          /\ resp[1].r.status = g.status
          /\ IF g.status = "ok"
               THEN resp[1].r = [status |-> "ok",
                                 text |-> g.content \o ComposeSeparator \o resp[1].message]
               ELSE resp[1].r = g /\ g = NotFound
          /\ \A message \in AnyMessages :
                Compose(srv.index[1], resp[1].kind, resp[1].x, message) =
                   IF g.status = "ok"
                     THEN [status |-> "ok", text |-> g.content \o ComposeSeparator \o message]
                     ELSE NotFound

C14_Witness ==
    /\ lpc = "serving"
    /\ resp # None
    /\ resp[1].op = "compose"
    /\ resp[1].message = <<"m">>
    /\ resp[1].r.status = "ok"
    /\ Get(srv.index[1], resp[1].kind, resp[1].x).status = "ok"

(***************************************************************************)
(* Missing sources.                                                       *)
(***************************************************************************)

\* A run of the script over the tree has ended.
BuildEnded == bpc = "idle" /\ nbuilds > 0

\* The part of a bundle that belongs to one collection: its metadata list
\* and its content map.
CollectionPart(bundle, kind) ==
    [list |-> Field(bundle, kind), content |-> Field(Field(bundle, KeyContent), kind)]

\* The parts a bundle has for a skills root (a subagents root) read in the
\* order given, when it is built beside a root of the other collection that
\* exists.
SkillsPart(listing, order) ==
    CollectionPart(Output(buildSkills(listing, order),
                          buildSubagents(TreeOne.subagents, <<FileV>>),
                          None, JObj(<< >>)), KeySkills)
SubagentsPart(listing, order) ==
    CollectionPart(Output(buildSkills(TreeOne.skills, <<DirA>>),
                          buildSubagents(listing, order),
                          None, JObj(<< >>)), KeySubagents)

EmptyPart == [list |-> JArr(<< >>), content |-> JObj(<< >>)]

\* The written artifact holds nothing for a root that does not exist and, for
\* the other collection, what that root alone determines.
AbsenceLeavesOther(bundle) ==
    /\ tree.skills = None => CollectionPart(bundle, KeySkills) = EmptyPart
    /\ tree.subagents = None => CollectionPart(bundle, KeySubagents) = EmptyPart
    /\ \E order \in Orders(Names(tree.skills)) :
          CollectionPart(bundle, KeySkills) = SkillsPart(tree.skills, order)
    /\ \E order \in Orders(Names(tree.subagents)) :
          CollectionPart(bundle, KeySubagents) = SubagentsPart(tree.subagents, order)

\* The run that ended wrote an artifact and its sidecar, and they hold nothing
\* for the missing root and the other collection as that root determines it.
CompletedDespiteAbsence ==
    /\ dist.artifact # None
    /\ dist.sidecar # None
    /\ [artifact |-> dist.artifact[1], sidecar |-> dist.sidecar[1]] \in completed
    /\ \A bundle \in {JsonParse(Utf8Decode(dist.artifact[1]))} :
          bundle # None /\ AbsenceLeavesOther(bundle[1])

\* The builders return an empty list and an empty name map for a root that
\* does not exist.
MissingRootIsEmpty ==
    /\ (SkillsBuilt /\ tree.skills = None) => build.skillsData = NoData
    /\ (bpc \in {"output", "writeArtifact", "writeSidecar"} /\ tree.subagents = None)
          => build.subagentsData = NoData

SkippedDirs ==
    IF tree.skills = None THEN {}
    ELSE {d \in DOMAIN tree.skills[1] :
             tree.skills[1][d].isDir /\ tree.skills[1][d].skill = None}

\* What buildSkills returns for the skills root without those subdirectories,
\* the others read in the order the run read them.
SkillsWithoutSkipped ==
    \A r \in {buildSkills(Some(Restrict(tree.skills[1], DOMAIN tree.skills[1] \ SkippedDirs)),
                           SelectSeq(build.skillDirs, LAMBDA d : d \notin SkippedDirs))} :
       /\ build.skillsData = [list |-> r.skills, byName |-> r.byName]
       /\ bpc = "writeArtifact"
             => build.jsonContent =
                  JsonContent([build EXCEPT !.skillsData = [list |-> r.skills, byName |-> r.byName]],
                              tree.whenToUse, ReadPackage(tree.pkg)[1])

\* C16: a subdirectory of the skills root without a primary document, with
\* or without a secondary document, adds no listing entry and no content key,
\* and the run builds the records and writes the bundle, catalog included,
\* that it builds and writes for the skills root without that subdirectory.
C16_DirectoryWithoutPrimarySkipped ==
    (SkillsBuilt /\ SkippedDirs # {})
    => /\ \A i \in 1..Len(build.skillsData.list) :
             build.skillsData.list[i].id \notin SkippedDirs
       /\ \A i \in 1..Len(build.skillsData.byName) :
             build.skillsData.byName[i].v.id \notin SkippedDirs
       /\ SkillsWithoutSkipped

C16_Witness ==
    /\ bpc = "writeArtifact"
    /\ SkippedDirs = {DirA}
    /\ tree.skills[1][DirA].ref # None
    /\ DirB \in SkillSources
    /\ Len(build.skillsData.list) = 1
    /\ build.skillDirs = <<DirB, DirA>>

\* What the adapter named by the request a answers over an index.
Answer(a, index) ==
    CASE a.op = "list" -> List(index)
      [] a.op = "get" -> Get(index, a.kind, a.x)
      [] a.op = "compose" -> Compose(index, a.kind, a.x, a.message)

\* C19: the index is the one the loader built from the verified bytes and no
\* step of a serving process changes it, List, Get and Compose included; so
\* after any sequence of calls the latest response is what its adapter
\* answers over the index as it was right after load.
C19_IndexImmutableAfterLoad ==
    /\ [](lpc = "serving" /\ resp # None => resp[1].r = Answer(resp[1], srv.index[1]))
    /\ [][/\ (lpc = "verified" /\ lpc' = "serving")
               => srv'.index = Some(BuildIndexOf(JsonParse(Utf8Decode(srv.artifact[1]))[1]))
          /\ (lpc = "serving" /\ lpc' = "serving")
               => srv' = srv /\ (resp' = resp \/ resp' # None)]_vars

C19_Witness ==
    /\ lpc = "serving"
    /\ resp # None
    /\ resp[1].op = "list"
    /\ Len(resp[1].r.skills) = 2
    /\ Len(resp[1].r.subagents) = 1
    /\ nruns > 1

\* What is on disk is no longer what the serving process read.
DiskChanged == dist.artifact # srv.artifact \/ dist.sidecar # srv.sidecar

\* C20: while a process serves, a step that changes the artifact or the
\* sidecar on disk (a rebuild, a deletion, an overwrite) leaves the process
\* serving with its index and its latest response as they were; a serving
\* process never goes back to verification and ends only by being stopped;
\* its index is the one built at startup from the bytes read then, so every
\* response given when the disk no longer holds what was read is what its
\* adapter answers over those bytes.
C20_DiskChangesDoNotReachServer ==
    /\ [](lpc = "serving" /\ resp # None /\ DiskChanged
             => resp[1].r = Answer(resp[1], srv.index[1]))
    /\ [][/\ (lpc = "serving" /\ dist' # dist)
               => lpc' = "serving" /\ srv' = srv /\ resp' = resp
          /\ lpc = "serving" => lpc' \in {"serving", "off"}
          /\ (lpc = "serving" /\ lpc' = "serving") => srv' = srv
          /\ (lpc # "serving" /\ lpc' = "serving")
               => /\ srv'.artifact = srv.artifact
                  /\ srv'.index
                       = Some(BuildIndexOf(JsonParse(Utf8Decode(srv.artifact[1]))[1]))]_vars

C20_Witness ==
    /\ lpc = "serving"
    /\ resp # None
    /\ resp[1].op = "get"
    /\ resp[1].r.status = "ok"
    /\ nbuilds > 1
    /\ tampered
    /\ dist.sidecar = None
    /\ dist.artifact # srv.artifact

(***************************************************************************)
(* The frontmatter parser.                                                *)
(***************************************************************************)

\* The text after the colon of the document's field line of that key, None
\* when the block has no such line.
FieldValue(d, key) ==
    IF \E i \in 1..Len(d.lines) : d.lines[i].key = key
      THEN Some(d.lines[CHOOSE i \in 1..Len(d.lines) : d.lines[i].key = key].value)
      ELSE None

\* The field is missing, or nothing but blanks follows its colon.
MissingOrEmpty(d, key) ==
    \/ FieldValue(d, key) = None
    \/ \A i \in 1..Len(FieldValue(d, key)[1]) : FieldValue(d, key)[1][i] \in Ws

\* The document without its field line of that key.
Without(d, key) == Document(d.form, SelectSeq(d.lines, LAMBDA l : l.key # key))

\* C17: for a document with no metadata block at its very start the parser
\* returns name null and description null; with a block, a missing or empty
\* name field gives name null and a missing or empty description field gives
\* description null, and each field is what the parser returns for it when
\* the other field's line is not there.
C17_FieldsResolveIndependently ==
    parsed # None
    => \A d \in {input[1]} :
          /\ d.form # "block" => parsed[1] = [name |-> None, description |-> None]
          /\ d.form = "block" =>
                /\ MissingOrEmpty(d, NameKey) => parsed[1].name = None
                /\ MissingOrEmpty(d, DescKey) => parsed[1].description = None
                /\ parsed[1].description
                      = extractFrontmatter(Without(d, NameKey).text).description
                /\ parsed[1].name
                      = extractFrontmatter(Without(d, DescKey).text).name

\* C18: for every description field that has a value, the description the
\* parser returns is what the name rule yields for the same text: trimmed,
\* then a leading quote removed if present and a trailing quote removed if
\* present.
C18_DescriptionStrippedLikeName ==
    (parsed # None /\ input[1].form = "block" /\ ~MissingOrEmpty(input[1], DescKey))
    => parsed[1].description = NameOf(FieldValue(input[1], DescKey))

\* The latest response answers a List.
ListAnswered == resp # None /\ resp[1].op = "list"

\* The sequence of records is, entry for entry and in order, the array of
\* objects arr with exactly the fields given.
SameEntries(records, arr, keys) ==
    /\ Len(records) = Len(arr)
    /\ \A i \in 1..Len(arr) :
          /\ [j \in 1..Len(arr[i].o) |-> arr[i].o[j].k] = keys
          /\ records[i].id = Field(arr[i], KeyId).s
          /\ records[i].name = Field(arr[i], KeyName).s
          /\ (Len(keys) = 3 => records[i].hasReference = Field(arr[i], KeyHasReference).b)

\* C22: every List answer of a serving process holds the skills and the
\* subagents metadata sequences of the artifact it loaded: the same entries
\* in the same order with the same id, name and hasReference; and those are
\* the lists buildSkills and buildSubagents return for the source tree in
\* one of the orders the roots can be read in.
C22_ListIsStoredMetadata ==
    (ServingBuilt /\ ListAnswered)
    => /\ \A bundle \in {JsonParse(Utf8Decode(srv.artifact[1]))[1]} :
             /\ SameEntries(resp[1].r.skills, Field(bundle, KeySkills).a,
                            <<KeyId, KeyName, KeyHasReference>>)
             /\ SameEntries(resp[1].r.subagents, Field(bundle, KeySubagents).a,
                            <<KeyId, KeyName>>)
       /\ \E order \in Orders(Names(tree.skills)) :
             resp[1].r.skills = buildSkills(tree.skills, order).skills
       /\ \E order \in Orders(Names(tree.subagents)) :
             resp[1].r.subagents = buildSubagents(tree.subagents, order).subagents

\* A second process lists two skills, b before a, one of them with a
\* reference.
C22_Witness ==
    /\ ServingBuilt
    /\ ListAnswered
    /\ nruns > 1
    /\ Len(resp[1].r.skills) = 2
    /\ resp[1].r.skills[1].id = DirB
    /\ resp[1].r.skills[1].hasReference
    /\ ~resp[1].r.skills[2].hasReference
    /\ resp[1].r.skills[2].name # DirA
    /\ Len(resp[1].r.subagents) = 1

\* The document of the model that has the bytes given as its text.
IsDocument(bytes) == \E d \in Documents : d.text = bytes
DocumentOf(bytes) == CHOOSE d \in Documents : d.text = bytes

\* The name a record built from the document d is to have: the value of the
\* name field of its metadata block, trimmed and without the quotes around
\* it, when the block has the field and that value is not empty; the id
\* otherwise.
ExpectedName(d, id) ==
    IF d.form = "block" /\ ~MissingOrEmpty(d, NameKey)
      THEN OrElse(NameOf(FieldValue(d, NameKey)), id)
      ELSE id

\* The run has gone through both roots.
BothBuilt == bpc \in {"output", "writeArtifact", "writeSidecar"}

\* C23: every entry of the built skills listing has the name of a directory
\* that holds a primary document as its id, whatever that document declares,
\* and as its name the name that document declares, the id when it declares
\* none or an empty one; every entry of the subagents listing likewise, its
\* id the file name without the .md suffix.
C23_NameIsDeclaredOrId ==
    BothBuilt
    => /\ \A i \in 1..Len(build.skillsData.list) :
             \A m \in {build.skillsData.list[i]} :
                /\ m.id \in SkillSources
                /\ IsDocument(tree.skills[1][m.id].skill[1])
                      => m.name = ExpectedName(DocumentOf(tree.skills[1][m.id].skill[1]), m.id)
       /\ \A i \in 1..Len(build.subagentsData.list) :
             \A m \in {build.subagentsData.list[i]} :
                /\ m.id \o MdSuffix \in SubagentSources
                /\ IsDocument(tree.subagents[1][m.id \o MdSuffix])
                      => m.name = ExpectedName(DocumentOf(tree.subagents[1][m.id \o MdSuffix]), m.id)

\* text.split('\n')
RECURSIVE SplitLines(_)
SplitLines(text) ==
    The({IF nl = 0 THEN << text >>
         ELSE << SubSeq(text, 1, nl - 1) >> \o SplitLines(SubSeq(text, nl + 1, Len(text))) :
           nl \in {IndexOfFrom(text, <<"\n">>, 1)}})

KeyCatalog == <<"c","a","t","a","l","o","g">>

\* The entry line of the catalog for a name, an id and a description text.
EntryLine(name, id, desc) ==
    <<"-"," ","*","*">> \o name \o <<"*","*"," ","(","i","d",":"," ","x60">> \o id
    \o <<"x60",")"," ",EmDash," ">> \o desc

\* The description a record shows in the catalog: its own, the placeholder
\* when it has none or an empty one.
ShownDescription(rec) == IF rec.description = << >> THEN NoDescription ELSE rec.description

\* The lines of the catalog for the two listings: the headings, one entry
\* line per skill of the listing in listing order, the subagents heading, one
\* entry line per subagent of the listing in listing order.
CatalogLinesFor(skillsData, subagentsData) ==
    << <<"#"," ","C","a","t","a","l","o","g">>, << >>, <<"#","#"," ","S","k","i","l","l","s">>, << >> >>
    \o [i \in 1..Len(skillsData.list) |->
          EntryLine(skillsData.list[i].name, skillsData.list[i].id,
                    ShownDescription(OwnValue(skillsData.byName, skillsData.list[i].name)))]
    \o << << >>, <<"#","#"," ","S","u","b","a","g","e","n","t","s">>, << >> >>
    \o [i \in 1..Len(subagentsData.list) |->
          EntryLine(subagentsData.list[i].name, subagentsData.list[i].id,
                    ShownDescription(OwnValue(subagentsData.byName, subagentsData.list[i].name)))]

\* C24: the catalog of the bundle a run is about to write has, under its
\* headings, exactly one entry line per entry of the skills listing and one
\* per entry of the subagents listing, in listing order, each with the
\* entry's name, id and the description of its record, the placeholder
\* standing there exactly when that description is empty.
C24_CatalogLinePerEntry ==
    bpc = "writeArtifact"
    => \A lines \in {SplitLines(Field(Field(JsonParse(build.jsonContent)[1], KeyContent),
                                       KeyCatalog).s)} :
          /\ Len(lines) = 7 + Len(build.skillsData.list) + Len(build.subagentsData.list)
          /\ lines = CatalogLinesFor(build.skillsData, build.subagentsData)
          /\ \A i \in 1..Len(build.skillsData.list) :
                EndsWith(lines[4 + i], NoDescription)
                   <=> OwnValue(build.skillsData.byName,
                                build.skillsData.list[i].name).description = << >>

\* Two skills are listed, b before a, one with a description and one without.
C24_Witness ==
    /\ bpc = "writeArtifact"
    /\ Len(build.skillsData.list) = 2
    /\ build.skillsData.list[1].id = DirB
    /\ build.skillsData.byName[1].v.description # << >>
    /\ build.skillsData.byName[2].v.description = << >>
    /\ Len(build.subagentsData.list) = 1

\* C25: a step of the script leaves the source tree (the skills root, the
\* subagents root, docs/when-to-use.md, package.json) as it is; the artifact
\* file changes only in the step that writes it and the sidecar only in the
\* step that writes it, and no other step of the script changes the output
\* directory.
C25_BuildWritesOnlyOutput ==
    [][bpc' # bpc
         => /\ tree' = tree
            /\ dist'.artifact # dist.artifact => bpc = "writeArtifact"
            /\ dist'.sidecar # dist.sidecar => bpc = "writeSidecar"
            /\ bpc \notin {"writeArtifact", "writeSidecar"} => dist' = dist]_vars

\* Two runs over a tree that has sources have ended, both files are written
\* and the tree was never edited.
C25_Witness ==
    /\ BuildEnded
    /\ nbuilds = 2
    /\ nedits = 0
    /\ tree = TreeOne
    /\ completed # {}
    /\ dist.artifact # None
    /\ dist.sidecar # None

(***************************************************************************)
(* Two runs over one source tree.                                         *)
(***************************************************************************)

KeyWhenToUse == <<"w","h","e","n","T","o","U","s","e">>
KeyOverview == <<"o","v","e","r","v","i","e","w">>

\* The bundle of a completed run, parsed from the artifact it wrote.
BundleIn(p) == JsonParse(Utf8Decode(p.artifact))[1]

\* The ids of a metadata list of a bundle, in list order.
ListedIds(bundle, kind) ==
    [i \in 1..Len(Field(bundle, kind).a) |-> Field(Field(bundle, kind).a[i], KeyId).s]

\* The elements of a sequence.
Elements(seq) == {seq[i] : i \in 1..Len(seq)}

\* The two bundles list the same ids in the same order in both collections.
SameListing(b, c) ==
    \A kind \in {KeySkills, KeySubagents} : ListedIds(b, kind) = ListedIds(c, kind)

\* The two bundles hold the same records, whatever their order: the same
\* list entries, the same content under the same keys, the same catalog
\* lines, the same when-to-use text and overview.
SameRecords(b, c) ==
    /\ \A kind \in {KeySkills, KeySubagents} :
          /\ Elements(Field(b, kind).a) = Elements(Field(c, kind).a)
          /\ Elements(Field(Field(b, KeyContent), kind).o)
                = Elements(Field(Field(c, KeyContent), kind).o)
    /\ Elements(SplitLines(Field(Field(b, KeyContent), KeyCatalog).s))
          = Elements(SplitLines(Field(Field(c, KeyContent), KeyCatalog).s))
    /\ Field(Field(b, KeyContent), KeyWhenToUse) = Field(Field(c, KeyContent), KeyWhenToUse)
    /\ Field(Field(b, KeyContent), KeyOverview) = Field(Field(c, KeyContent), KeyOverview)

\* No two skill directories and no two subagent documents of the tree
\* resolve to one name.
NoCollision ==
    /\ \A d, e \in SkillSources : SkillName(d) = SkillName(e) => d = e
    /\ \A f, g \in SubagentSources : SubagentName(f) = SubagentName(g) => f = g

\* Runs of the script over the tree as it is have ended, before any server
\* process started.
RunsEnded == bpc = "idle" /\ nedits = 0 /\ nruns = 0 /\ completed # {}

\* C26: of the runs completed over one source tree, two that listed the same
\* ids in the same order wrote the same artifact bytes and the same sidecar
\* (so a tree with at most one skill and one subagent has one artifact); and
\* when no two sources resolve to one name, any two of them wrote bundles
\* that hold the same records, in an order that may differ.
C26_SameOrderSameBytes ==
    RunsEnded
    => \A p, q \in completed :
          p # q
          => \A b \in {BundleIn(p)}, c \in {BundleIn(q)} :
                /\ ~SameListing(b, c)
                /\ Cardinality(SkillSources) > 1 \/ Cardinality(SubagentSources) > 1
                /\ NoCollision => SameRecords(b, c)

\* Two runs over a tree without a name collision wrote different artifacts.
C26_Witness ==
    /\ RunsEnded
    /\ nbuilds = 2
    /\ NoCollision
    /\ Cardinality(completed) = 2
    /\ \E p, q \in completed : p # q /\ ~SameListing(BundleIn(p), BundleIn(q))

\* C26 as stated: when no two sources resolve to one name, the order in which
\* the entries are enumerated does not change the output, so all runs over
\* the tree wrote the same artifact and sidecar.
C26_OrderMattersOnlyOnCollision ==
    (RunsEnded /\ NoCollision) => \A p, q \in completed : p = q

(***************************************************************************)
(* Name collisions.                                                       *)
(***************************************************************************)

\* The record a run builds from the skill directory d alone, and from the
\* subagent document f alone: every field from that one source.
RecordOfSkill(d) ==
    [id |-> d,
     name |-> SkillName(d),
     description |->
        OrElse(extractFrontmatter(Utf8Decode(tree.skills[1][d].skill[1])).description, << >>),
     content |-> Utf8Decode(tree.skills[1][d].skill[1]),
     reference |-> IF tree.skills[1][d].ref = None THEN None
                   ELSE Some(Utf8Decode(tree.skills[1][d].ref[1]))]
RecordOfSubagent(f) ==
    [id |-> Basename(f),
     name |-> SubagentName(f),
     description |->
        OrElse(extractFrontmatter(Utf8Decode(tree.subagents[1][f])).description, << >>),
     content |-> Utf8Decode(tree.subagents[1][f])]

\* The sources that resolve to the name of the source x, x among them.
SkillsNamedLike(d) == {e \in SkillSources : SkillName(e) = SkillName(d)}
SubagentsNamedLike(f) == {g \in SubagentSources : SubagentName(g) = SubagentName(f)}

\* Of the sources that resolve to one name, every one but the last processed
\* has its id in no listing entry and no record of the name map, and every
\* record under that name is the record of the last processed source alone.
LoserGone(data, losers, winner) ==
    /\ \A i \in 1..Len(data.list) : data.list[i].id \notin losers
    /\ \A i \in 1..Len(data.byName) :
          /\ data.byName[i].v.id \notin losers
          /\ data.byName[i].k = winner.name => data.byName[i].v = winner

\* What content.skills (content.subagents) of the bundle holds under the
\* name of the record.
StoredUnder(bundle, kind, name) == Field(Field(Field(bundle, KeyContent), kind), name)

\* C27: when two or more skill directories (subagent documents) resolve to
\* one name, the id of every one but the last processed is in no listing
\* entry and no record; the record under that name has its id, description,
\* content and reference from the last processed source alone; and in the
\* serialized bundle the content and the reference under that name are those
\* of that source, the reference null when it has no secondary document.
C27_CollisionLoserDisappears ==
    /\ BothBuilt
          => /\ \A d \in SkillSources :
                   Cardinality(SkillsNamedLike(d)) > 1
                   => \A w \in {LastProcessed(build.skillDirs, SkillsNamedLike(d))} :
                         LoserGone(build.skillsData, SkillsNamedLike(d) \ {w}, RecordOfSkill(w))
             /\ \A f \in SubagentSources :
                   Cardinality(SubagentsNamedLike(f)) > 1
                   => \A w \in {LastProcessed(build.files, SubagentsNamedLike(f))} :
                         LoserGone(build.subagentsData,
                                   {Basename(g) : g \in SubagentsNamedLike(f) \ {w}},
                                   RecordOfSubagent(w))
    /\ bpc = "writeArtifact"
          => \A bundle \in {JsonParse(build.jsonContent)[1]} :
                /\ \A i \in 1..Len(build.skillsData.list) :
                      \A r \in {RecordOfSkill(build.skillsData.list[i].id)} :
                         StoredUnder(bundle, KeySkills, build.skillsData.list[i].name)
                            = JObj(<< [k |-> KeyContent, v |-> JStr(r.content)],
                                      [k |-> KeyReference,
                                       v |-> IF r.reference = None THEN JNull
                                             ELSE JStr(r.reference[1])] >>)
                /\ \A i \in 1..Len(build.subagentsData.list) :
                      StoredUnder(bundle, KeySubagents, build.subagentsData.list[i].name)
                         = JObj(<< [k |-> KeyContent,
                                    v |-> JStr(RecordOfSubagent(build.subagentsData.list[i].id
                                                                 \o MdSuffix).content)] >>)

\* The directory b, with a description and a secondary document, was
\* processed first and lost the name s to the directory a, which has neither.
C27_Witness ==
    /\ bpc = "writeArtifact"
    /\ build.skillDirs = <<DirB, DirA>>
    /\ SkillSources = {DirA, DirB}
    /\ SkillsNamedLike(DirA) = {DirA, DirB}
    /\ tree.skills[1][DirB].ref # None
    /\ tree.skills[1][DirA].ref = None
    /\ RecordOfSkill(DirB).description # << >>
    /\ Len(build.skillsData.list) = 1
    /\ build.skillsData.byName[1].v.description = << >>
    /\ build.skillsData.byName[1].v.reference = None

(***************************************************************************)
(* Ids.                                                                   *)
(***************************************************************************)

\* No two entries of the list have one id.
DistinctIds(list) == \A i, j \in 1..Len(list) : list[i].id = list[j].id => i = j

\* The by-id index over the list has one entry per list entry, and maps the
\* id of every list entry to that entry.
OneRecordPerId(col) ==
    /\ Cardinality(DOMAIN col.byId) = Len(col.list)
    /\ \A i \in 1..Len(col.list) : col.byId[col.list[i].id] = col.list[i]

\* C28: the ids of the built skills listing are pairwise distinct and so are
\* the ids of the built subagents listing, whatever names the directories,
\* the files and the documents have; and the by-id index over each list of
\* the serialized bundle has as many entries as the list and maps each id to
\* the one entry that has it.
C28_IdsPairwiseDistinct ==
    /\ BothBuilt
          => DistinctIds(build.skillsData.list) /\ DistinctIds(build.subagentsData.list)
    /\ bpc = "writeArtifact"
          => \A index \in {BuildIndexOf(JsonParse(build.jsonContent)[1])} :
                OneRecordPerId(index.skills) /\ OneRecordPerId(index.subagents)

\* The files .md and .md.md are both listed, under different names, beside
\* one skill.
C28_Witness ==
    /\ bpc = "writeArtifact"
    /\ tree.subagents # None
    /\ DOMAIN tree.subagents[1] = {FileDot, FileDotDot}
    /\ Len(build.subagentsData.list) = 2
    /\ \E i \in 1..2 : build.subagentsData.list[i].id = << >>
    /\ \E i \in 1..2 : build.subagentsData.list[i].id = FileDot
    /\ Len(build.skillsData.list) = 1

(***************************************************************************)
(* The two collections beside each other.                                 *)
(***************************************************************************)

\* The skill directory d and the subagent document f are alone in their
\* collections with their names, and resolve to one name or have one id.
Overlapping(d, f) ==
    /\ SkillsNamedLike(d) = {d}
    /\ SubagentsNamedLike(f) = {f}
    /\ SkillName(d) # ProtoKey
    /\ SubagentName(f) # ProtoKey
    /\ SkillName(d) = SubagentName(f) \/ d = Basename(f)

\* The bundle lists both and holds the document of each under its name in
\* its own collection.
BothAppear(bundle, d, f) ==
    /\ \E i \in 1..Len(MetaList(bundle, KeySkills)) :
          /\ MetaList(bundle, KeySkills)[i].id = d
          /\ MetaList(bundle, KeySkills)[i].name = SkillName(d)
    /\ \E i \in 1..Len(MetaList(bundle, KeySubagents)) :
          /\ MetaList(bundle, KeySubagents)[i].id = Basename(f)
          /\ MetaList(bundle, KeySubagents)[i].name = SubagentName(f)
    /\ Field(StoredUnder(bundle, KeySkills, SkillName(d)), KeyContent).s
          = Utf8Decode(tree.skills[1][d].skill[1])
    /\ Field(StoredUnder(bundle, KeySubagents, SubagentName(f)), KeyContent).s
          = Utf8Decode(tree.subagents[1][f])

\* C29: in the bundle a run is about to write, the skills list and
\* content.skills are what the skills root alone determines, whatever the
\* subagents root holds, and the subagents list and content.subagents are
\* what the subagents root alone determines; a skill and a subagent that
\* resolve to one name, or have one id, are both listed, each with its own
\* document under its name in its own content map.
C29_CollectionsAreSeparate ==
    bpc = "writeArtifact"
    => \A bundle \in {JsonParse(build.jsonContent)[1]} :
          /\ CollectionPart(bundle, KeySkills) = SkillsPart(tree.skills, build.skillDirs)
          /\ CollectionPart(bundle, KeySubagents) = SubagentsPart(tree.subagents, build.files)
          /\ \A d \in SkillSources, f \in SubagentSources :
                Overlapping(d, f) => BothAppear(bundle, d, f)

\* The skill directory a and the subagent document a.md both declare the
\* name s, with different documents.
C29_Witness ==
    /\ bpc = "writeArtifact"
    /\ SkillSources = {DirA}
    /\ SubagentSources = {FileA}
    /\ SkillName(DirA) = <<"s">>
    /\ SubagentName(FileA) = <<"s">>
    /\ tree.skills[1][DirA].skill[1] # tree.subagents[1][FileA]
    /\ Len(build.skillsData.list) = 1
    /\ Len(build.subagentsData.list) = 1

(***************************************************************************)
(* The order of the lists and of the content maps.                        *)
(***************************************************************************)

\* The names of a metadata list and the keys of a name map, in their order.
NameSeq(list) == [i \in 1..Len(list) |-> list[i].name]
KeySeq(o) == [i \in 1..Len(o) |-> o[i].k]

\* Of the sources in the order the run processed them, those that no source
\* of the same name precedes.
FirstSkills ==
    SelectSeq(build.skillDirs,
              LAMBDA d : /\ d \in SkillSources
                         /\ \A e \in SkillsNamedLike(d) :
                               Position(build.skillDirs, d) <= Position(build.skillDirs, e))
FirstSubagents ==
    SelectSeq(build.files,
              LAMBDA f : /\ f \in SubagentSources
                         /\ \A g \in SubagentsNamedLike(f) :
                               Position(build.files, f) <= Position(build.files, g))

\* C30: in the bundle a run is about to write, the names of each metadata
\* list are, in order, the keys of the corresponding content map, and both
\* are the keys of the builder's name map in its iteration order; that order
\* is the one the map has when every name is written once, by the first
\* source that resolves to it, and the entry of a name has the id of the
\* last source that resolves to it.
C30_ListOrderIsKeyOrder ==
    bpc = "writeArtifact"
    => \A bundle \in {JsonParse(build.jsonContent)[1]} :
          /\ NameSeq(MetaList(bundle, KeySkills)) = KeySeq(Field(Field(bundle, KeyContent), KeySkills).o)
          /\ NameSeq(MetaList(bundle, KeySkills)) = KeySeq(build.skillsData.byName)
          /\ NameSeq(MetaList(bundle, KeySubagents))
                = KeySeq(Field(Field(bundle, KeyContent), KeySubagents).o)
          /\ NameSeq(MetaList(bundle, KeySubagents)) = KeySeq(build.subagentsData.byName)
          /\ NameSeq(MetaList(bundle, KeySkills))
                = NameSeq(buildSkills(tree.skills, FirstSkills).skills)
          /\ NameSeq(MetaList(bundle, KeySubagents))
                = NameSeq(buildSubagents(tree.subagents, FirstSubagents).subagents)
          /\ \A i \in 1..Len(build.skillsData.list) :
                build.skillsData.list[i].id
                   = LastProcessed(build.skillDirs, SkillsNamedLike(build.skillsData.list[i].id))
          /\ \A i \in 1..Len(build.subagentsData.list) :
                build.subagentsData.list[i].id \o MdSuffix
                   = LastProcessed(build.files,
                                   SubagentsNamedLike(build.subagentsData.list[i].id \o MdSuffix))

\* The documents v.md, w.md and a.md were processed in that order, the first
\* and the last declaring the name s: s is listed first, with the id a; and
\* the skill named 1 is listed before the skill named s.
C30_Witness ==
    /\ bpc = "writeArtifact"
    /\ build.files = <<FileV, FileW, FileA>>
    /\ build.skillDirs = <<DirA, DirB, DirC>>
    /\ build.subagentsData.list = << [id |-> <<"a">>, name |-> <<"s">>],
                                     [id |-> <<"w">>, name |-> <<"w">>] >>
    /\ NameSeq(build.skillsData.list) = << <<"1">>, <<"s">> >>
    /\ build.skillsData.list[2].id = DirC

(***************************************************************************)
(* Rebuilds.                                                              *)
(***************************************************************************)

\* The text of the bundle a run over the source tree t builds when it reads
\* the skills root in the order dirOrder and the subagents root in fileOrder.
BundleOf(t, dirOrder, fileOrder) ==
    Stringify(Output(buildSkills(t.skills, dirOrder), buildSubagents(t.subagents, fileOrder),
                     t.whenToUse, ReadPackage(t.pkg)[1]))

\* Every record of the bundle comes from a source the tree holds now: its id
\* is a skill directory (the stem of a subagent document) of the tree, its
\* name is the name that source declares and its content is that document.
RecordsFromTree(bundle) ==
    /\ \A i \in 1..Len(MetaList(bundle, KeySkills)) :
          \A m \in {MetaList(bundle, KeySkills)[i]} :
             /\ m.id \in SkillSources
             /\ m.name = SkillName(m.id)
             /\ Field(Field(Field(Field(bundle, KeyContent), KeySkills), m.name), KeyContent).s
                   = Utf8Decode(tree.skills[1][m.id].skill[1])
    /\ \A i \in 1..Len(MetaList(bundle, KeySubagents)) :
          \A m \in {MetaList(bundle, KeySubagents)[i]} :
             /\ m.id \o MdSuffix \in SubagentSources
             /\ m.name = SubagentName(m.id \o MdSuffix)
             /\ Field(Field(Field(Field(bundle, KeyContent), KeySubagents), m.name), KeyContent).s
                   = Utf8Decode(tree.subagents[1][m.id \o MdSuffix])

\* C21: whatever was built before and however the tree was changed since, a
\* run over the tree serializes exactly the bundle that the tree alone
\* determines (for the orders in which this run read the roots), the artifact
\* file then holds the bytes of that text and nothing else, every record in
\* it comes from a source the tree holds at this build, and the sidecar
\* written last is the digest of that text.
C21_RebuildIsWholesale ==
    /\ [](bpc \in {"writeArtifact", "writeSidecar"}
             => build.jsonContent = BundleOf(tree, build.skillDirs, build.files))
    /\ [](bpc = "writeSidecar"
             => /\ dist.artifact = Some(ArtifactBytes(build.jsonContent))
                /\ RecordsFromTree(JsonParse(Utf8Decode(dist.artifact[1]))[1]))
    /\ [][(bpc = "writeSidecar" /\ bpc' = "idle")
             => /\ dist'.artifact = dist.artifact
                /\ dist'.sidecar = Some(SidecarText(build.jsonContent))
                /\ build' = NoLocals]_vars

\* A second run has written its artifact over that of a first run of another
\* tree which had records, and the tree has none now.
C21_Witness ==
    /\ bpc = "writeSidecar"
    /\ nbuilds = 2
    /\ nedits = 1
    /\ tree = TreeBare
    /\ \E p \in completed :
          /\ p.artifact # dist.artifact[1]
          /\ Len(MetaList(JsonParse(Utf8Decode(p.artifact))[1], KeySkills)) > 0
    /\ MetaList(JsonParse(Utf8Decode(dist.artifact[1]))[1], KeySkills) = << >>

Build == BuildSkills \/ BuildSubagents \/ BuildOutput \/ WriteArtifact \/ WriteSidecar
Load == ServerStart \/ ReadArtifact \/ ReadSidecar \/ Verify \/ BuildIndex
Serve == ListRequest \/ GetRequest \/ ComposeRequest \/ ServerStop

\* No build is running and no server process is.
Quiet == bpc = "idle" /\ lpc \in {"off", "failed", "crashed"}

\* The pipeline: builds, source edits and server runs, interleaved in any way.
Init == tree \in PipelineTrees /\ InitCommon
Next == EditSource \/ Build \/ Load \/ Serve
Spec == Init /\ [][Next]_vars

\* Tampering: a build runs to its end, one byte of the artifact may then be
\* changed, and servers are started over what is on disk.
InitTamper == tree \in TamperTrees /\ InitCommon
NextTamper ==
    \/ lpc = "off" /\ nruns = 0 /\ Build
    \/ Quiet /\ nbuilds > 0 /\ TamperArtifact
    \/ bpc = "idle" /\ nbuilds > 0 /\ Load
    \/ Serve
SpecTamper == InitTamper /\ [][NextTamper]_vars

\* Builds of any source tree, each followed by server runs over what it built.
InitBuild == tree \in BuildTrees /\ InitCommon
NextBuild ==
    \/ lpc = "off" /\ Build
    \/ bpc = "idle" /\ nbuilds > 0 /\ Load
    \/ Serve
SpecBuild == InitBuild /\ [][NextBuild]_vars

\* A live server: after a first build a server runs, and while it serves the
\* source is edited and rebuilt and, between builds, the artifact is
\* overwritten and files of the output directory are deleted; the process
\* answers one request, before or after any of these.
InitLive == tree = TreeOne /\ InitCommon
NextLive ==
    \/ nruns = 0 /\ (nbuilds = 0 \/ bpc # "idle") /\ Build
    \/ lpc = "serving" /\ bpc = "idle" /\ (EditSource \/ OverwriteArtifact \/ DeleteOutput)
    \/ lpc = "serving" /\ Build
    \/ bpc = "idle" /\ nbuilds > 0 /\ Load
    \/ resp = None /\ (ListRequest \/ GetRequest \/ ComposeRequest)
    \/ ServerStop
SpecLive == InitLive /\ [][NextLive]_vars

\* The frontmatter parser alone, over every document of the model.
InitParse ==
    /\ tree = TreeBare
    /\ InitFiles
    /\ input \in {Some(d) : d \in Documents}
    /\ parsed = None
SpecParse == InitParse /\ [][ExtractFrontmatter]_vars

\* Rebuilds: a run of the script over any source tree, then the tree is
\* changed and the script runs again; a run starts when no run has yet ended
\* over the tree as it is, or the tree was changed more than once.
InitRebuild ==
    /\ tree \in BuildTrees \cup DocumentTrees \cup StemTrees \cup CrossTrees \cup TripleTrees
              \cup {TreeBare}
    /\ InitCommon
NextRebuild ==
    \/ (bpc # "idle" \/ nbuilds <= nedits) /\ Build
    \/ bpc = "idle" /\ EditSource
SpecRebuild == InitRebuild /\ [][NextRebuild]_vars
====
